---- MODULE Spec2Model ----
(***************************************************************************)
(* HotDesking: the booking server (Express route handlers over the         *)
(* DatabaseStorage layer and the PostgreSQL schema).                       *)
(*                                                                         *)
(* Every handler is an async function: it runs atomically from one await   *)
(* of a storage call to the next, and other requests interleave at the     *)
(* awaits.  One action of this module is one such step: the storage call   *)
(* (one SQL statement, atomic in the database) together with the           *)
(* synchronous code that follows it up to the next storage call or the     *)
(* response.  The arrival of a request (Start) binds the handler's inputs  *)
(* and changes nothing in the database.                                    *)
(*                                                                         *)
(* The admin's floor editor is a component of the browser client: its      *)
(* state is local until saved, and one action is one of its event          *)
(* handlers, run to completion.                                            *)
(***************************************************************************)
EXTENDS Integers, Sequences, FiniteSets, TLC

\* ------------------------------------------------------------------ bounds

\* Requests accepted in one behaviour.
MaxRequests == 2

\* Longest seatIds, dates and slots list of a bulk request drawn as an input.
MaxLen == 2

\* The floor editor holds at most MaxClusters clusters and MaxSeats seats,
\* the deleted ones counted.
MaxClusters == 2
MaxSeats == 2

\* ------------------------------------------------------------- the universe

Procs == {"p1", "p2"}

\* Two team-cluster desks that the seed script creates free (not long-term).
SeatIds == {"seat-t21", "seat-t22"}

SeedName(id) == IF id = "seat-t21" THEN "T21" ELSE "T22"

Users == {"ann", "bob", "root"}

Dates == {"2024-01-10", "2024-01-11"}

Slots == {"AM", "PM"}

\* SQL NULL in the timestamp column cancelled_at; real timestamps are >= 1.
Null == 0

\* The JWT claims of a user: first_name, last_name, email ("" is absent).
Claims(u) ==
    CASE u = "ann"  -> [first_name |-> "Ann", last_name |-> "Lee", email |-> "ann@x.io"]
      [] u = "bob"  -> [first_name |-> "Bob", last_name |-> "",    email |-> "bob@x.io"]
      [] OTHER      -> [first_name |-> "",    last_name |-> "",    email |-> "root@x.io"]

\* `${first_name}${last_name ? ` ${last_name}` : ""}` or null, as a sequence of
\* the words joined (the empty sequence is null).
UserNameOf(u) ==
    LET c == Claims(u) IN
    IF c.first_name # ""
    THEN IF c.last_name # "" THEN <<c.first_name, c.last_name>> ELSE <<c.first_name>>
    ELSE <<>>

UserEmailOf(u) == Claims(u).email

\* ------------------------------------------------------------------- state

VARIABLES
    seats,      \* table seats: id -> row, for the ids that have a row
    bookings,   \* table bookings: a set of rows
    userRoles,  \* table user_roles: a set of rows
    req,        \* per request slot: the handler invocation in it and its locals
    response,   \* the response sent last
    nextId,     \* the next value the id default (gen_random_uuid) yields
    clock,      \* the server's clock (new Date())
    started     \* requests accepted so far

\* The state of the admin's floor editor, a component of the browser client.
VARIABLES
    localClusters,        \* useState<LocalCluster[]>: the clusters, an array
    localSeats,           \* useState<LocalSeat[]>: the seats, an array
    selectedCluster,      \* id of the selected cluster, or Null
    showCapacityWarning,  \* whether the cluster-is-full dialog is open
    toastTitle            \* title of the toast the last handler raised, or ""

editorVars ==
    <<localClusters, localSeats, selectedCluster, showCapacityWarning, toastTitle>>

\* The tables of the invite-only registration.
VARIABLES
    users,    \* table users: a set of rows
    invites   \* table invites: a set of rows

authVars == <<users, invites>>

\* A database with no account and no invite.
InitAuthEmpty == users = {} /\ invites = {}

vars ==
    <<seats, bookings, userRoles, req, response, nextId, clock, started,
      users, invites,
      localClusters, localSeats, selectedCluster, showCapacityWarning, toastTitle>>

\* The editor before anything is loaded into it.
InitEditorEmpty ==
    /\ localClusters = <<>> /\ localSeats = <<>>
    /\ selectedCluster = Null
    /\ showCapacityWarning = FALSE
    /\ toastTitle = ""

\* A request slot with no request in it, and the shape of every req[p].
\* status .. failed are the response under construction.
Idle ==
    [kind |-> "idle", pc |-> "idle", user |-> "",
     seatId |-> "", date |-> "", slot |-> "", bookingId |-> 0,
     flag |-> FALSE, flag2 |-> FALSE, holder |-> "", keys |-> {},
     target |-> "", role |-> "",
     email |-> "", inviteCode |-> "", inviteId |-> "", newUser |-> "",
     seatIds |-> <<>>, dates |-> <<>>, slots |-> <<>>, i |-> 0, j |-> 0,
     seatName |-> "", bookingsToCreate |-> <<>>, conflicts |-> <<>>,
     status |-> 0, message |-> "", rows |-> {}, created |-> 0, failed |-> 0]

\* What a response carries: the route, the status code, the message, the
\* booking rows of the body, and the conflicts and counts of a bulk answer.
ResponseOf(r) ==
    [kind |-> r.kind, status |-> r.status, message |-> r.message, rows |-> r.rows,
     conflicts |-> r.conflicts, created |-> r.created, failed |-> r.failed]

NoResponse == ResponseOf(Idle)

\* The columns of seats that a handler of this module reads or writes.
SeatRow(name) ==
    [name |-> name, isBlocked |-> FALSE, isLongTermReserved |-> FALSE,
     longTermReservedBy |-> ""]

SeedRoles ==
    {[userId |-> u, role |-> IF u = "root" THEN "admin" ELSE "employee"] : u \in Users}

\* The database when the server starts: the seeded seats and roles, and what
\* earlier runs left in bookings: nothing, one booking of ann, or that
\* booking cancelled.
SeedBooking(cancelledAt) ==
    [id |-> 1, seatId |-> "seat-t21", userId |-> "ann", userName |-> <<"Ann", "Lee">>,
     userEmail |-> "ann@x.io", date |-> "2024-01-10", slot |-> "AM",
     cancelledAt |-> cancelledAt]

InitDatabase ==
    /\ seats = [id \in SeatIds |-> SeatRow(SeedName(id))]
    /\ userRoles = SeedRoles
    /\ \/ bookings = {} /\ nextId = 1 /\ clock = 1
       \/ bookings = {SeedBooking(Null)} /\ nextId = 2 /\ clock = 1
       \/ bookings = {SeedBooking(1)} /\ nextId = 2 /\ clock = 2

Init ==
    /\ InitDatabase
    /\ InitEditorEmpty
    /\ InitAuthEmpty
    /\ req = [p \in Procs |-> Idle]
    /\ response = NoResponse
    /\ started = 0

\* ----------------------------------------------------------------- storage

\* storage.getSeat: whether the select finds a row.
SeatExists(id) == id \in DOMAIN seats

\* storage.getUserRole: the rows of the user; the caller takes the first.
\* RoleOf is getUserRole(userId)?.role, "" when the user has no row.
GetUserRole(u) == {r \in userRoles : r.userId = u}

RoleOf(u) ==
    IF GetUserRole(u) = {} THEN "" ELSE (CHOOSE r \in GetUserRole(u) : TRUE).role

\* Mutant of GetBookingsBySeatAndDate: the isNull(cancelledAt) condition is
\* missing, so cancelled rows count as occupying their slot.
GetBookingsIncludingCancelled(seatId, date) ==
    {b \in bookings : b.seatId = seatId /\ b.date = date}

\* storage.getBookingsBySeatAndDate: the rows of the seat and date with
\* cancelled_at IS NULL.
GetBookingsBySeatAndDate(seatId, date) ==
    {b \in bookings : b.seatId = seatId /\ b.date = date /\ b.cancelledAt = Null}

\* storage.getBooking: the rows with the id (none or one).
GetBooking(id) == {b \in bookings : b.id = id}

\* A row as INSERT INTO bookings stores it: the id default, cancelled_at NULL.
NewRow(id, data) ==
    [id |-> id, seatId |-> data.seatId, userId |-> data.userId,
     userName |-> data.userName, userEmail |-> data.userEmail,
     date |-> data.date, slot |-> data.slot, cancelledAt |-> Null]

\* Mutant of ForeignKeyOk: bookings.seat_id references nothing.
ForeignKeyOkNoConstraint(data) == TRUE

\* The foreign key bookings.seat_id -> seats.id: an insert is refused when
\* the seat has no row.
ForeignKeyOk(data) == data.seatId \in DOMAIN seats

\* Mutant of InsertedRows: the rows are inserted one statement each, and
\* this step is the first of them.
InsertedRowsFirstOnly(datas) == {NewRow(nextId, datas[1])}

\* The rows one INSERT ... VALUES (...), (...) RETURNING * adds: the
\* statement adds every row, or is refused and adds none.
InsertedRows(datas) == {NewRow(nextId + k - 1, datas[k]) : k \in 1..Len(datas)}

InsertAccepted(datas) == \A k \in 1..Len(datas) : ForeignKeyOk(datas[k])

\* Mutant of CancelledRows: the WHERE clause also asks for cancelled_at IS
\* NULL, so a cancelled row keeps its timestamp.
CancelledRowsOnlyActive(id, t) ==
    {IF b.id = id /\ b.cancelledAt = Null THEN [b EXCEPT !.cancelledAt = t] ELSE b :
        b \in bookings}

\* Mutant of CancelledRows: the WHERE clause compares the user, so every
\* booking of the booking's owner is cancelled.
CancelledRowsOfOwner(id, t) ==
    {IF \E o \in bookings : o.id = id /\ o.userId = b.userId
     THEN [b EXCEPT !.cancelledAt = t] ELSE b : b \in bookings}

\* Mutant of CancelledRows: cancelling toggles, a cancelled row becomes
\* active again.
CancelledRowsToggle(id, t) ==
    {IF b.id = id
     THEN [b EXCEPT !.cancelledAt = IF b.cancelledAt = Null THEN t ELSE Null]
     ELSE b : b \in bookings}

\* Mutant of CancelledRows: cancelling deletes the row.
CancelledRowsDeleted(id, t) == {b \in bookings : b.id # id}

\* storage.cancelBooking: UPDATE bookings SET cancelled_at = t WHERE id = id.
CancelledRows(id, t) ==
    {IF b.id = id THEN [b EXCEPT !.cancelledAt = t] ELSE b : b \in bookings}

\* storage.deleteSeat: DELETE FROM seats WHERE id = id, and ON DELETE CASCADE
\* on bookings.seat_id.
SeatsWithout(id) == [s \in DOMAIN seats \ {id} |-> seats[s]]

\* Mutant of BookingsAfterSeatDelete: the foreign key has no ON DELETE CASCADE
\* and the rows stay.
BookingsNoCascade(id) == bookings

BookingsAfterSeatDelete(id) == {b \in bookings : b.seatId # id}

\* ------------------------------------------------------------ request slots

CanStart(p) == req[p].pc = "idle" /\ started < MaxRequests

Begin(kind, u) == [Idle EXCEPT !.kind = kind, !.user = u]

Respond(r, status, message) ==
    [r EXCEPT !.pc = "done", !.status = status, !.message = message]

\* The step's effect on the slot: the handler goes on, or has answered and
\* the slot is free again.
Commit(p, r) ==
    IF r.pc = "done"
    THEN /\ req' = [req EXCEPT ![p] = Idle]
         /\ response' = ResponseOf(r)
    ELSE /\ req' = [req EXCEPT ![p] = r]
         /\ response' = response

\* A request arrives: the handler runs up to its first storage call.
Start(p, r) ==
    /\ CanStart(p)
    /\ started' = started + 1
    /\ req' = [req EXCEPT ![p] = r]
    /\ UNCHANGED <<authVars, editorVars, seats, bookings, userRoles, response, nextId, clock>>

\* ------------------------------------------------- POST /api/bookings

\* const slotTaken = existingBookings.some(b => b.slot === bookingData.slot)
SlotTaken(existingBookings, slot) == \E b \in existingBookings : b.slot = slot

BookingData(u, s, d, l) ==
    [seatId |-> s, userId |-> u, userName |-> UserNameOf(u),
     userEmail |-> UserEmailOf(u), date |-> d, slot |-> l]

\* The answer of the slot check.
SingleSlotCheck(r) ==
    IF SlotTaken(GetBookingsBySeatAndDate(r.seatId, r.date), r.slot)
    THEN Respond(r, 409, "Slot already booked")
    ELSE [r EXCEPT !.pc = "getSeat"]

\* Mutant of SingleSeatCheck: the !seat check is missing, so reading
\* seat.isBlocked of no seat throws and the catch answers 500.
SingleSeatCheckNoNotFound(r) ==
    IF ~SeatExists(r.seatId) THEN Respond(r, 500, "Failed to create booking")
    ELSE IF seats[r.seatId].isBlocked THEN Respond(r, 409, "Seat is blocked")
    ELSE IF seats[r.seatId].isLongTermReserved
         THEN Respond(r, 409, "Seat is reserved for long-term use")
    ELSE [r EXCEPT !.pc = "create"]

\* Mutant of SingleSeatCheck: the isBlocked check is missing.
SingleSeatCheckNoBlocked(r) ==
    IF ~SeatExists(r.seatId) THEN Respond(r, 404, "Seat not found")
    ELSE IF seats[r.seatId].isLongTermReserved
         THEN Respond(r, 409, "Seat is reserved for long-term use")
    ELSE [r EXCEPT !.pc = "create"]

\* The answer of the seat checks.
SingleSeatCheck(r) ==
    IF ~SeatExists(r.seatId) THEN Respond(r, 404, "Seat not found")
    ELSE IF seats[r.seatId].isBlocked THEN Respond(r, 409, "Seat is blocked")
    ELSE IF seats[r.seatId].isLongTermReserved
         THEN Respond(r, 409, "Seat is reserved for long-term use")
    ELSE [r EXCEPT !.pc = "create"]

\* The request of user u for seat s on date d, slot l, its body parsed.
SingleRequest(u, s, d, l) ==
    [Begin("single", u) EXCEPT !.pc = "getBookings", !.seatId = s, !.date = d, !.slot = l]

\* Mutant of SingleGetBookings: the insert is made before the checks.
SingleGetBookingsInsertFirst(p) ==
    /\ req[p].kind = "single" /\ req[p].pc = "getBookings"
    /\ LET r == req[p]
           datas == <<BookingData(r.user, r.seatId, r.date, r.slot)>>
       IN /\ bookings' = IF InsertAccepted(datas) THEN bookings \cup InsertedRows(datas)
                                                  ELSE bookings
          /\ nextId' = nextId + 1
          /\ Commit(p, SingleSlotCheck(r))
    /\ UNCHANGED <<authVars, editorVars, seats, userRoles, clock, started>>

\* First step: getBookingsBySeatAndDate and the slot check.
SingleGetBookings(p) ==
    /\ req[p].kind = "single" /\ req[p].pc = "getBookings"
    /\ Commit(p, SingleSlotCheck(req[p]))
    /\ UNCHANGED <<authVars, editorVars, seats, bookings, userRoles, nextId, clock, started>>

\* Second step: getSeat and the seat checks.
SingleGetSeat(p) ==
    /\ req[p].kind = "single" /\ req[p].pc = "getSeat"
    /\ Commit(p, SingleSeatCheck(req[p]))
    /\ UNCHANGED <<authVars, editorVars, seats, bookings, userRoles, nextId, clock, started>>

\* Third step: storage.createBooking, answered 201; a refused insert throws
\* and the catch answers 500.
SingleCreate(p) ==
    /\ req[p].kind = "single" /\ req[p].pc = "create"
    /\ LET r == req[p]
           datas == <<BookingData(r.user, r.seatId, r.date, r.slot)>>
       IN IF InsertAccepted(datas)
          THEN /\ bookings' = bookings \cup InsertedRows(datas)
               /\ nextId' = nextId + 1
               /\ Commit(p, [Respond(r, 201, "") EXCEPT !.rows = InsertedRows(datas)])
          ELSE /\ Commit(p, Respond(r, 500, "Failed to create booking"))
               /\ UNCHANGED <<authVars, editorVars, bookings, nextId>>
    /\ UNCHANGED <<authVars, editorVars, seats, userRoles, clock, started>>

\* --------------------------------------------- POST /api/bookings/bulk

\* Mutant of SlotLoop: the conflict message leaves the date out.
RECURSIVE SlotLoopNoDate(_, _, _)
SlotLoopNoDate(r, existingBookings, k) ==
    IF k > Len(r.slots) THEN r
    ELSE LET seatId == r.seatIds[r.i]
             date == r.dates[r.j]
             slot == r.slots[k]
         IN IF SlotTaken(existingBookings, slot)
            THEN SlotLoopNoDate([r EXCEPT !.conflicts =
                             Append(@, <<r.seatName, slot, "already booked">>)],
                          existingBookings, k + 1)
            ELSE SlotLoopNoDate([r EXCEPT !.bookingsToCreate =
                             Append(@, BookingData(r.user, seatId, date, slot))],
                          existingBookings, k + 1)

\* Mutant of SlotLoop: the slots are taken from the last to the first.
RECURSIVE SlotLoopReversed(_, _, _)
SlotLoopReversed(r, existingBookings, k) ==
    IF k > Len(r.slots) THEN r
    ELSE LET seatId == r.seatIds[r.i]
             date == r.dates[r.j]
             slot == r.slots[Len(r.slots) + 1 - k]
         IN IF SlotTaken(existingBookings, slot)
            THEN SlotLoopReversed([r EXCEPT !.conflicts =
                             Append(@, <<r.seatName, "on", date, slot, "already booked">>)],
                          existingBookings, k + 1)
            ELSE SlotLoopReversed([r EXCEPT !.bookingsToCreate =
                             Append(@, BookingData(r.user, seatId, date, slot))],
                          existingBookings, k + 1)

\* The for loop over slots for one seat and date, from the k-th slot on:
\* a taken slot adds a conflict, a free one a booking to create.
RECURSIVE SlotLoop(_, _, _)
SlotLoop(r, existingBookings, k) ==
    IF k > Len(r.slots) THEN r
    ELSE LET seatId == r.seatIds[r.i]
             date == r.dates[r.j]
             slot == r.slots[k]
         IN IF SlotTaken(existingBookings, slot)
            THEN SlotLoop([r EXCEPT !.conflicts =
                             Append(@, <<r.seatName, "on", date, slot, "already booked">>)],
                          existingBookings, k + 1)
            ELSE SlotLoop([r EXCEPT !.bookingsToCreate =
                             Append(@, BookingData(r.user, seatId, date, slot))],
                          existingBookings, k + 1)

\* Mutant of BulkAfterLoops: one conflict is enough to abort the batch.
BulkAfterLoopsAbortOnConflict(r) ==
    IF Len(r.bookingsToCreate) = 0 \/ Len(r.conflicts) > 0
    THEN Respond(r, 409, "No bookings could be created")
    ELSE [r EXCEPT !.pc = "createBulk"]

\* Mutant of BulkAfterLoops: the length check is missing and the insert is
\* called with an empty list.
BulkAfterLoopsNoCheck(r) == [r EXCEPT !.pc = "createBulk"]

\* After the loops: nothing to create is answered 409, else the insert is next.
BulkAfterLoops(r) ==
    IF Len(r.bookingsToCreate) = 0
    THEN Respond(r, 409, "No bookings could be created")
    ELSE [r EXCEPT !.pc = "createBulk"]

\* `continue` of the seat loop, or its end.
BulkNextSeat(r) ==
    IF r.i + 1 > Len(r.seatIds)
    THEN BulkAfterLoops(r)
    ELSE [r EXCEPT !.pc = "getSeat", !.i = @ + 1, !.j = 0]

\* The end of one date's slot loop: the next date, or the next seat.
BulkNextDate(r) ==
    IF r.j + 1 > Len(r.dates)
    THEN BulkNextSeat(r)
    ELSE [r EXCEPT !.pc = "getBookings", !.j = @ + 1]

\* Mutant of BulkSeatCheck: the isBlocked check is missing.
BulkSeatCheckNoBlocked(r) ==
    LET seatId == r.seatIds[r.i] IN
    IF ~SeatExists(seatId)
    THEN BulkNextSeat([r EXCEPT !.conflicts = Append(@, <<"Seat", seatId, "not found">>)])
    ELSE IF seats[seatId].isLongTermReserved
    THEN BulkNextSeat([r EXCEPT !.conflicts =
                         Append(@, <<"Seat", seats[seatId].name,
                                     "is reserved for long-term use">>)])
    ELSE [r EXCEPT !.pc = "getBookings", !.j = 1, !.seatName = seats[seatId].name]

\* Mutant of BulkSeatCheck: a rejected seat adds its conflict, and the
\* `continue` is missing, so its dates and slots are processed all the same.
BulkSeatCheckNoContinue(r) ==
    LET seatId == r.seatIds[r.i] IN
    IF ~SeatExists(seatId)
    THEN BulkNextSeat([r EXCEPT !.conflicts = Append(@, <<"Seat", seatId, "not found">>)])
    ELSE IF seats[seatId].isBlocked
    THEN [r EXCEPT !.conflicts = Append(@, <<"Seat", seats[seatId].name, "is blocked">>),
                   !.pc = "getBookings", !.j = 1, !.seatName = seats[seatId].name]
    ELSE IF seats[seatId].isLongTermReserved
    THEN [r EXCEPT !.conflicts = Append(@, <<"Seat", seats[seatId].name,
                                             "is reserved for long-term use">>),
                   !.pc = "getBookings", !.j = 1, !.seatName = seats[seatId].name]
    ELSE [r EXCEPT !.pc = "getBookings", !.j = 1, !.seatName = seats[seatId].name]

\* getSeat for the i-th seat id and the three seat checks.
BulkSeatCheck(r) ==
    LET seatId == r.seatIds[r.i] IN
    IF ~SeatExists(seatId)
    THEN BulkNextSeat([r EXCEPT !.conflicts = Append(@, <<"Seat", seatId, "not found">>)])
    ELSE IF seats[seatId].isBlocked
    THEN BulkNextSeat([r EXCEPT !.conflicts =
                         Append(@, <<"Seat", seats[seatId].name, "is blocked">>)])
    ELSE IF seats[seatId].isLongTermReserved
    THEN BulkNextSeat([r EXCEPT !.conflicts =
                         Append(@, <<"Seat", seats[seatId].name,
                                     "is reserved for long-term use">>)])
    ELSE [r EXCEPT !.pc = "getBookings", !.j = 1, !.seatName = seats[seatId].name]

\* The request of user u, its body parsed: bulkBookingSchema asks each list
\* for an element at least.
BulkRequest(u, seatIds, dates, slots) ==
    [Begin("bulk", u) EXCEPT !.pc = "getSeat", !.seatIds = seatIds, !.dates = dates,
                             !.slots = slots, !.i = 1]

\* getSeat for the i-th seat id, and the seat checks.
BulkGetSeat(p) ==
    /\ req[p].kind = "bulk" /\ req[p].pc = "getSeat"
    /\ Commit(p, BulkSeatCheck(req[p]))
    /\ UNCHANGED <<authVars, editorVars, seats, bookings, userRoles, nextId, clock, started>>

\* getBookingsBySeatAndDate for the i-th seat and the j-th date, and the
\* slot loop over its result.
BulkGetBookings(p) ==
    /\ req[p].kind = "bulk" /\ req[p].pc = "getBookings"
    /\ LET r == req[p]
           existingBookings == GetBookingsBySeatAndDate(r.seatIds[r.i], r.dates[r.j])
       IN Commit(p, BulkNextDate(SlotLoop(r, existingBookings, 1)))
    /\ UNCHANGED <<authVars, editorVars, seats, bookings, userRoles, nextId, clock, started>>

\* Mutant of BulkReport: failed counts the requested combinations that were
\* not created instead of the conflict entries.
BulkReportFailedCombinations(r, createdBookings) ==
    [Respond(r, 201, "") EXCEPT
       !.rows = createdBookings,
       !.created = Cardinality(createdBookings),
       !.failed = Len(r.seatIds) * Len(r.dates) * Len(r.slots)
                    - Cardinality(createdBookings)]

\* The 201 body: bookings, conflicts, created: createdBookings.length,
\* failed: conflicts.length.
BulkReport(r, createdBookings) ==
    [Respond(r, 201, "") EXCEPT
       !.rows = createdBookings,
       !.created = Cardinality(createdBookings),
       !.failed = Len(r.conflicts)]

\* storage.createBulkBookings, answered 201 with the rows, the conflicts and
\* the two counts; a refused insert throws and the catch answers 500.
BulkCreate(p) ==
    /\ req[p].kind = "bulk" /\ req[p].pc = "createBulk"
    /\ LET r == req[p]
           datas == r.bookingsToCreate
       IN IF InsertAccepted(datas)
          THEN /\ bookings' = bookings \cup InsertedRows(datas)
               /\ nextId' = nextId + Len(datas)
               /\ Commit(p, BulkReport(r, InsertedRows(datas)))
          ELSE /\ Commit(p, Respond(r, 500, "Failed to create bookings"))
               /\ UNCHANGED <<authVars, editorVars, bookings, nextId>>
    /\ UNCHANGED <<authVars, editorVars, seats, userRoles, clock, started>>

\* ------------------------------------------- DELETE /api/bookings/:id

CancelRequest(u, id) ==
    [Begin("cancel", u) EXCEPT !.pc = "getBooking", !.bookingId = id]

\* First step: getBooking; no row is answered 404.
CancelGetBooking(p) ==
    /\ req[p].kind = "cancel" /\ req[p].pc = "getBooking"
    /\ LET r == req[p] IN
       IF GetBooking(r.bookingId) = {}
       THEN Commit(p, Respond(r, 404, "Booking not found"))
       ELSE Commit(p, [r EXCEPT !.pc = "getUserRole", !.rows = GetBooking(r.bookingId)])
    /\ UNCHANGED <<authVars, editorVars, seats, bookings, userRoles, nextId, clock, started>>

\* Mutant of CancelForbidden: the owner comparison is === instead of !==.
CancelForbiddenOwner(r, role) ==
    (\E b \in r.rows : b.userId = r.user) /\ role # "admin"

\* booking.userId !== userId && userRole?.role !== "admin", on the row the
\* first step fetched.
CancelForbidden(r, role) ==
    (\E b \in r.rows : b.userId # r.user) /\ role # "admin"

\* Second step: getUserRole and the authorization check.
CancelGetUserRole(p) ==
    /\ req[p].kind = "cancel" /\ req[p].pc = "getUserRole"
    /\ LET r == req[p] IN
       IF CancelForbidden(r, RoleOf(r.user))
       THEN Commit(p, [Respond(r, 403, "Not authorized to cancel this booking")
                         EXCEPT !.rows = {}])
       ELSE Commit(p, [r EXCEPT !.pc = "cancelBooking"])
    /\ UNCHANGED <<authVars, editorVars, seats, bookings, userRoles, nextId, clock, started>>

\* Third step: storage.cancelBooking with new Date(), answered 200 with the
\* updated row (with nothing when no row has the id any more).  The clock
\* never runs backwards.
CancelBooking(p) ==
    /\ req[p].kind = "cancel" /\ req[p].pc = "cancelBooking"
    /\ \E t \in {clock, clock + 1} :
         /\ clock' = t
         /\ bookings' = CancelledRows(req[p].bookingId, t)
         /\ Commit(p, [Respond(req[p], 200, "") EXCEPT
                         !.rows = {b \in CancelledRows(req[p].bookingId, t) :
                                     b.id = req[p].bookingId}])
    /\ UNCHANGED <<authVars, editorVars, seats, userRoles, nextId, started>>

\* ----------------------------------------------- the admin seat routes

\* Mutant of NotAdmin: the check is !userRole, so any user with a role row
\* passes.
NotAdminNoRoleRow(role) == role = ""

\* userRole?.role !== "admin"
NotAdmin(role) == role # "admin"

\* A request to one of the admin seat routes (kind: block, longTerm,
\* deleteSeat) for seat s; flag and holder are the body's fields.
AdminRequest(kind, u, s, flag, holder) ==
    [Begin(kind, u) EXCEPT !.pc = "getUserRole", !.seatId = s, !.flag = flag,
                           !.holder = holder]

AdminKinds == {"block", "longTerm", "deleteSeat"}

\* First step of every admin seat route: getUserRole; a caller who is no
\* admin is answered 403.
AdminGetUserRole(p) ==
    /\ req[p].kind \in AdminKinds /\ req[p].pc = "getUserRole"
    /\ LET r == req[p] IN
       IF NotAdmin(RoleOf(r.user))
       THEN Commit(p, Respond(r, 403, "Admin access required"))
       ELSE Commit(p, [r EXCEPT !.pc = IF r.kind = "deleteSeat" THEN "getSeat"
                                       ELSE "updateSeat"])
    /\ UNCHANGED <<authVars, editorVars, seats, bookings, userRoles, nextId, clock, started>>

\* PATCH /api/seats/:id/block: storage.updateSeat(id, {isBlocked}).
BlockUpdate(row, isBlocked) == [row EXCEPT !.isBlocked = isBlocked]

\* Mutant of BlockSeat: blocking a seat also cancels its active bookings.
BlockSeatCancelsBookings(p) ==
    /\ req[p].kind = "block" /\ req[p].pc = "updateSeat"
    /\ LET r == req[p] IN
       IF SeatExists(r.seatId)
       THEN /\ seats' = [seats EXCEPT ![r.seatId] = BlockUpdate(@, r.flag)]
            /\ bookings' = {IF b.seatId = r.seatId /\ b.cancelledAt = Null
                            THEN [b EXCEPT !.cancelledAt = clock] ELSE b : b \in bookings}
            /\ Commit(p, Respond(r, 200, ""))
       ELSE /\ Commit(p, Respond(r, 404, "Seat not found"))
            /\ UNCHANGED <<seats, bookings>>
    /\ UNCHANGED <<authVars, editorVars, userRoles, nextId, clock, started>>

BlockSeat(p) ==
    /\ req[p].kind = "block" /\ req[p].pc = "updateSeat"
    /\ LET r == req[p] IN
       IF SeatExists(r.seatId)
       THEN /\ seats' = [seats EXCEPT ![r.seatId] = BlockUpdate(@, r.flag)]
            /\ Commit(p, Respond(r, 200, ""))
       ELSE /\ Commit(p, Respond(r, 404, "Seat not found"))
            /\ UNCHANGED seats
    /\ UNCHANGED <<authVars, editorVars, bookings, userRoles, nextId, clock, started>>

\* An optional body field that the request leaves out.
Undefined == "undefined"

\* PATCH /api/seats/:id/long-term: storage.updateSeat(id, {isLongTermReserved,
\* longTermReservedBy: isLongTermReserved ? longTermReservedBy : null}); a key
\* whose value is undefined is not part of the SET clause.
LongTermUpdate(row, isLongTermReserved, longTermReservedBy) ==
    LET by == IF isLongTermReserved THEN longTermReservedBy ELSE "" IN
    [row EXCEPT !.isLongTermReserved = isLongTermReserved,
                !.longTermReservedBy = IF by = Undefined THEN @ ELSE by]

LongTermSeat(p) ==
    /\ req[p].kind = "longTerm" /\ req[p].pc = "updateSeat"
    /\ LET r == req[p] IN
       IF SeatExists(r.seatId)
       THEN /\ seats' = [seats EXCEPT ![r.seatId] = LongTermUpdate(@, r.flag, r.holder)]
            /\ Commit(p, Respond(r, 200, ""))
       ELSE /\ Commit(p, Respond(r, 404, "Seat not found"))
            /\ UNCHANGED seats
    /\ UNCHANGED <<authVars, editorVars, bookings, userRoles, nextId, clock, started>>

\* DELETE /api/seats/:id, second step: getSeat; no row is answered 404.
DeleteSeatGetSeat(p) ==
    /\ req[p].kind = "deleteSeat" /\ req[p].pc = "getSeat"
    /\ LET r == req[p] IN
       IF SeatExists(r.seatId)
       THEN Commit(p, [r EXCEPT !.pc = "deleteSeat"])
       ELSE Commit(p, Respond(r, 404, "Seat not found"))
    /\ UNCHANGED <<authVars, editorVars, seats, bookings, userRoles, nextId, clock, started>>

\* DELETE /api/seats/:id, third step: storage.deleteSeat, answered 200.
DeleteSeat(p) ==
    /\ req[p].kind = "deleteSeat" /\ req[p].pc = "deleteSeat"
    /\ seats' = SeatsWithout(req[p].seatId)
    /\ bookings' = BookingsAfterSeatDelete(req[p].seatId)
    /\ Commit(p, Respond(req[p], 200, "Seat deleted successfully"))
    /\ UNCHANGED <<authVars, editorVars, userRoles, nextId, clock, started>>

\* ------------------------------------------------------------ specifications

\* The non-empty lists over S of at most n elements.
RECURSIVE ListsUpTo(_, _)
ListsUpTo(S, n) ==
    IF n = 0 THEN {}
    ELSE {<<x>> : x \in S} \cup
         {Append(l, x) : l \in ListsUpTo(S, n - 1), x \in S}

\* The booking ids a cancel request may name: every id given out so far.
KnownIds == 1..(nextId - 1)

\* The steps of the handlers.
Step(p) ==
    \/ SingleGetBookings(p)
    \/ SingleGetSeat(p)
    \/ SingleCreate(p)
    \/ BulkGetSeat(p)
    \/ BulkGetBookings(p)
    \/ BulkCreate(p)
    \/ CancelGetBooking(p)
    \/ CancelGetUserRole(p)
    \/ CancelBooking(p)
    \/ AdminGetUserRole(p)
    \/ BlockSeat(p)
    \/ LongTermSeat(p)
    \/ DeleteSeatGetSeat(p)
    \/ DeleteSeat(p)

\* The requests of the specification Spec: every route, on one date.  ann
\* and bob book, everybody cancels, root (the admin) and bob (who is none)
\* call the admin seat routes, for the first seat.
Requests ==
    {SingleRequest(u, s, "2024-01-10", "AM") : u \in {"ann", "bob"}, s \in SeatIds}
    \cup {BulkRequest("bob", ss, <<"2024-01-10">>, ls) :
            ss \in {<<"seat-t21">>, <<"seat-t21", "seat-t22">>},
            ls \in {<<"AM">>, <<"PM", "AM">>}}
    \cup {CancelRequest(u, id) : u \in Users, id \in KnownIds}
    \cup {AdminRequest(k, "bob", "seat-t21", TRUE, "Dana") : k \in AdminKinds}
    \cup {AdminRequest("deleteSeat", "root", "seat-t21", FALSE, "")}
    \cup {AdminRequest("block", "root", "seat-t21", f, "") : f \in BOOLEAN}
    \cup {AdminRequest("longTerm", "root", "seat-t21", f, "Dana") : f \in BOOLEAN}

Next ==
    \E p \in Procs :
        \/ CanStart(p) /\ \E r \in Requests : Start(p, r)
        \/ Step(p)

Spec == Init /\ [][Next]_vars

\* Single-booking requests only, for any seat, date and slot.
SingleRequests ==
    {SingleRequest(u, s, d, l) : u \in {"ann", "bob"}, s \in SeatIds, d \in Dates, l \in Slots}

NextSingle ==
    \E p \in Procs :
        \/ CanStart(p) /\ \E r \in SingleRequests : Start(p, r)
        \/ SingleGetBookings(p)
        \/ SingleGetSeat(p)
        \/ SingleCreate(p)

SpecSingle == Init /\ [][NextSingle]_vars

\* One bulk request running alone, with any lists of at most MaxLen seat
\* ids, dates and slots, on a database in which admins have blocked,
\* long-term reserved or deleted seats.
SeatStates(id) ==
    {SeatRow(SeedName(id)),
     BlockUpdate(SeatRow(SeedName(id)), TRUE),
     LongTermUpdate(SeatRow(SeedName(id)), TRUE, "Dana")}

InitBulk ==
    /\ \E present \in SUBSET SeatIds :
         seats \in [present -> UNION {SeatStates(id) : id \in SeatIds}]
    /\ \A id \in DOMAIN seats : seats[id] \in SeatStates(id)
    /\ userRoles = SeedRoles
    /\ \/ bookings = {} /\ nextId = 1 /\ clock = 1
       \/ bookings = {SeedBooking(Null)} /\ nextId = 2 /\ clock = 1
       \/ bookings = {SeedBooking(1)} /\ nextId = 2 /\ clock = 2
    /\ \A b \in bookings : b.seatId \in DOMAIN seats
    /\ req = [p \in Procs |-> Idle]
    /\ response = NoResponse
    /\ started = MaxRequests - 1
    /\ InitEditorEmpty
    /\ InitAuthEmpty

BulkRequests ==
    {BulkRequest("bob", ss, ds, ls) :
        ss \in ListsUpTo(SeatIds, MaxLen), ds \in ListsUpTo(Dates, MaxLen),
        ls \in ListsUpTo(Slots, MaxLen)}

NextBulk ==
    \/ CanStart("p1") /\ \E r \in BulkRequests : Start("p1", r)
    \/ BulkGetSeat("p1")
    \/ BulkGetBookings("p1")
    \/ BulkCreate("p1")

SpecBulk == InitBulk /\ [][NextBulk]_vars

\* ------------------------------------- PATCH /api/seats/:id, POST /api/seats

\* PATCH /api/seats/:id by user u for seat s; keys are the fields the body
\* has, among those of updateSeatSchema that are columns of this module:
\* isBlocked (flag), isLongTermReserved (flag2), longTermReservedBy (holder).
UpdateRequest(u, s, keys, flag, flag2, holder) ==
    [Begin("update", u) EXCEPT !.pc = "getUserRole", !.seatId = s, !.keys = keys,
                               !.flag = flag, !.flag2 = flag2, !.holder = holder]

\* POST /api/seats by user u with the body's id and name.
CreateRequest(u, id, name) ==
    [Begin("create", u) EXCEPT !.pc = "getUserRole", !.seatId = id, !.seatName = name]

\* First step of both routes: getUserRole; a caller who is no admin is
\* answered 403.
UpdateGetUserRole(p) ==
    /\ req[p].kind = "update" /\ req[p].pc = "getUserRole"
    /\ LET r == req[p] IN
       IF NotAdmin(RoleOf(r.user))
       THEN Commit(p, Respond(r, 403, "Admin access required"))
       ELSE Commit(p, [r EXCEPT !.pc = "updateSeat"])
    /\ UNCHANGED <<authVars, editorVars, seats, bookings, userRoles, nextId, clock, started>>

CreateGetUserRole(p) ==
    /\ req[p].kind = "create" /\ req[p].pc = "getUserRole"
    /\ LET r == req[p] IN
       IF NotAdmin(RoleOf(r.user))
       THEN Commit(p, Respond(r, 403, "Admin access required"))
       ELSE Commit(p, [r EXCEPT !.pc = "getSeat"])
    /\ UNCHANGED <<authVars, editorVars, seats, bookings, userRoles, nextId, clock, started>>

\* storage.updateSeat(id, validatedData): the SET clause has the body's keys.
SeatUpdate(row, r) ==
    [row EXCEPT
       !.isBlocked = IF "isBlocked" \in r.keys THEN r.flag ELSE @,
       !.isLongTermReserved = IF "isLongTermReserved" \in r.keys THEN r.flag2 ELSE @,
       !.longTermReservedBy = IF "longTermReservedBy" \in r.keys THEN r.holder ELSE @]

\* PATCH /api/seats/:id, second step: updateSeat, answered 200, or 404 when
\* no row has the id.
UpdateSeat(p) ==
    /\ req[p].kind = "update" /\ req[p].pc = "updateSeat"
    /\ LET r == req[p] IN
       IF SeatExists(r.seatId)
       THEN /\ seats' = [seats EXCEPT ![r.seatId] = SeatUpdate(@, r)]
            /\ Commit(p, Respond(r, 200, ""))
       ELSE /\ Commit(p, Respond(r, 404, "Seat not found"))
            /\ UNCHANGED seats
    /\ UNCHANGED <<authVars, editorVars, bookings, userRoles, nextId, clock, started>>

\* storage.getSeatByName: whether the select finds a row.
SeatNameExists(name) == \E s \in DOMAIN seats : seats[s].name = name

\* POST /api/seats, second step: getSeat(seatData.id).
CreateSeatGetSeat(p) ==
    /\ req[p].kind = "create" /\ req[p].pc = "getSeat"
    /\ LET r == req[p] IN
       IF SeatExists(r.seatId)
       THEN Commit(p, Respond(r, 409, "Seat with this ID already exists"))
       ELSE Commit(p, [r EXCEPT !.pc = "getSeatByName"])
    /\ UNCHANGED <<authVars, editorVars, seats, bookings, userRoles, nextId, clock, started>>

\* POST /api/seats, third step: getSeatByName(seatData.name).
CreateSeatGetSeatByName(p) ==
    /\ req[p].kind = "create" /\ req[p].pc = "getSeatByName"
    /\ LET r == req[p] IN
       IF SeatNameExists(r.seatName)
       THEN Commit(p, Respond(r, 409, "Seat with this name already exists"))
       ELSE Commit(p, [r EXCEPT !.pc = "createSeat"])
    /\ UNCHANGED <<authVars, editorVars, seats, bookings, userRoles, nextId, clock, started>>

\* Mutant of SeatInsertAccepted: the name column has no unique constraint.
SeatInsertAcceptedNoUniqueName(id, name) == ~SeatExists(id)

\* INSERT INTO seats is refused by the primary key on id or by the unique
\* constraint on name.
SeatInsertAccepted(id, name) == ~SeatExists(id) /\ ~SeatNameExists(name)

\* The table after storage.createSeat has inserted the row.
SeatsWith(id, name) ==
    [s \in DOMAIN seats \cup {id} |-> IF s = id THEN SeatRow(name) ELSE seats[s]]

\* POST /api/seats, fourth step: createSeat, answered 201; a refused insert
\* throws and the catch answers 500.
CreateSeat(p) ==
    /\ req[p].kind = "create" /\ req[p].pc = "createSeat"
    /\ LET r == req[p] IN
       IF SeatInsertAccepted(r.seatId, r.seatName)
       THEN /\ seats' = SeatsWith(r.seatId, r.seatName)
            /\ Commit(p, Respond(r, 201, ""))
       ELSE /\ Commit(p, Respond(r, 500, "Failed to create seat"))
            /\ UNCHANGED seats
    /\ UNCHANGED <<authVars, editorVars, bookings, userRoles, nextId, clock, started>>

\* The admin seat routes alone: root, the admin, and bob, who is none, create,
\* update, block, long-term reserve and delete seats.
AdminRequests ==
    {CreateRequest("root", id, name) :
        id \in {"seat-x1", "seat-x2", "seat-t21"}, name \in {"X1", "T21"}}
    \cup {CreateRequest("bob", "seat-x1", "X1")}
    \cup {UpdateRequest("root", "seat-t21", keys, TRUE, TRUE, "Dana") :
            keys \in SUBSET {"isBlocked", "isLongTermReserved", "longTermReservedBy"}}
    \cup {UpdateRequest("bob", "seat-t21", {"isBlocked"}, TRUE, TRUE, "Dana")}
    \cup {AdminRequest(k, u, "seat-t21", TRUE, "Dana") :
            k \in AdminKinds, u \in {"bob", "root"}}

NextAdmin ==
    \E p \in Procs :
        \/ CanStart(p) /\ \E r \in AdminRequests : Start(p, r)
        \/ AdminGetUserRole(p)
        \/ BlockSeat(p)
        \/ LongTermSeat(p)
        \/ DeleteSeatGetSeat(p)
        \/ DeleteSeat(p)
        \/ UpdateGetUserRole(p)
        \/ UpdateSeat(p)
        \/ CreateGetUserRole(p)
        \/ CreateSeatGetSeat(p)
        \/ CreateSeatGetSeatByName(p)
        \/ CreateSeat(p)

SpecAdmin == Init /\ [][NextAdmin]_vars

\* ------------------------------------------------------------ user roles

\* Mutant of SetUserRole: a plain INSERT into a table with no primary key.
SetUserRoleInsertOnly(u, role) == userRoles \cup {[userId |-> u, role |-> role]}

\* storage.setUserRole: INSERT ... ON CONFLICT (user_id) DO UPDATE SET role.
SetUserRole(u, role) ==
    IF GetUserRole(u) = {}
    THEN userRoles \cup {[userId |-> u, role |-> role]}
    ELSE {IF r.userId = u THEN [r EXCEPT !.role = role] ELSE r : r \in userRoles}

\* storage.updateUserRole(userId, {role}): UPDATE ... WHERE user_id = userId.
UpdateUserRole(u, role) ==
    {IF r.userId = u THEN [r EXCEPT !.role = role] ELSE r : r \in userRoles}

\* storage.deleteUserRole: DELETE ... WHERE user_id = userId.
DeleteUserRole(u) == {r \in userRoles : r.userId # u}

\* GET /api/user/role by user u.
RoleGetRequest(u) == [Begin("roleGet", u) EXCEPT !.pc = "getUserRole"]

\* PATCH /api/users/:userId/role by user a for user t with the body's role.
RolePatchRequest(a, t, role) ==
    [Begin("rolePatch", a) EXCEPT !.pc = "getUserRole", !.target = t, !.role = role]

\* PATCH /api/users/:userId/status by user a for user t.
StatusPatchRequest(a, t) ==
    [Begin("statusPatch", a) EXCEPT !.pc = "getUserRole", !.target = t]

\* DELETE /api/users/:userId by user a for user t.
UserDeleteRequest(a, t) ==
    [Begin("userDelete", a) EXCEPT !.pc = "getUserRole", !.target = t]

\* Mutant of RoleGetDefault: the default role of a first access is admin.
RoleGetDefaultAdmin(r) == [r EXCEPT !.pc = "setUserRole", !.role = "admin"]

\* if (!userRole) userRole = await storage.setUserRole({userId, role: "employee"})
RoleGetDefault(r) == [r EXCEPT !.pc = "setUserRole", !.role = "employee"]

\* GET /api/user/role, first step: getUserRole; a row is answered with its
\* role, no row leads to setUserRole.
RoleGetUserRole(p) ==
    /\ req[p].kind = "roleGet" /\ req[p].pc = "getUserRole"
    /\ LET r == req[p] IN
       IF GetUserRole(r.user) = {}
       THEN Commit(p, RoleGetDefault(r))
       ELSE Commit(p, [Respond(r, 200, "") EXCEPT
                         !.role = RoleOf(r.user), !.rows = GetUserRole(r.user)])
    /\ UNCHANGED <<authVars, editorVars, seats, bookings, userRoles, nextId, clock, started>>

\* GET /api/user/role, second step: setUserRole, answered with the row's role.
RoleGetSetUserRole(p) ==
    /\ req[p].kind = "roleGet" /\ req[p].pc = "setUserRole"
    /\ LET r == req[p] IN
       /\ userRoles' = SetUserRole(r.user, r.role)
       /\ Commit(p, [Respond(r, 200, "") EXCEPT
                       !.rows = {x \in SetUserRole(r.user, r.role) : x.userId = r.user}])
    /\ UNCHANGED <<authVars, editorVars, seats, bookings, nextId, clock, started>>

\* First step of the three user-management routes: getUserRole of the caller;
\* who is no admin is answered 403; an admin who targets themselves is
\* answered 400 (the role route: only when the body's role is employee).
UserAdminGetUserRole(p) ==
    /\ req[p].kind \in {"rolePatch", "statusPatch", "userDelete"}
    /\ req[p].pc = "getUserRole"
    /\ LET r == req[p] IN
       IF NotAdmin(RoleOf(r.user))
       THEN Commit(p, Respond(r, 403, "Admin access required"))
       ELSE IF r.kind = "rolePatch"
       THEN IF r.target = r.user /\ r.role = "employee"
            THEN Commit(p, Respond(r, 400, "Cannot demote yourself"))
            ELSE Commit(p, [r EXCEPT !.pc = "getTarget"])
       ELSE IF r.target = r.user
       THEN Commit(p, Respond(r, 400, IF r.kind = "statusPatch"
                                      THEN "Cannot deactivate yourself"
                                      ELSE "Cannot delete yourself"))
       ELSE Commit(p, [r EXCEPT !.pc = IF r.kind = "statusPatch" THEN "getTarget"
                                       ELSE "deleteUserRole"])
    /\ UNCHANGED <<authVars, editorVars, seats, bookings, userRoles, nextId, clock, started>>

\* Role and status routes, second step: getUserRole of the target.
UserGetTarget(p) ==
    /\ req[p].kind \in {"rolePatch", "statusPatch"} /\ req[p].pc = "getTarget"
    /\ LET r == req[p] IN
       IF GetUserRole(r.target) = {}
       THEN Commit(p, [r EXCEPT !.pc = "setUserRole"])
       ELSE Commit(p, [r EXCEPT !.pc = "updateUserRole"])
    /\ UNCHANGED <<authVars, editorVars, seats, bookings, userRoles, nextId, clock, started>>

\* Role route, third step when the target had no row: setUserRole.
RolePatchSetUserRole(p) ==
    /\ req[p].kind = "rolePatch" /\ req[p].pc = "setUserRole"
    /\ LET r == req[p] IN
       /\ userRoles' = SetUserRole(r.target, r.role)
       /\ Commit(p, [Respond(r, 200, "") EXCEPT
                       !.rows = {x \in SetUserRole(r.target, r.role) : x.userId = r.target}])
    /\ UNCHANGED <<authVars, editorVars, seats, bookings, nextId, clock, started>>

\* Role route, third step when the target had a row: updateUserRole.
RolePatchUpdateUserRole(p) ==
    /\ req[p].kind = "rolePatch" /\ req[p].pc = "updateUserRole"
    /\ LET r == req[p] IN
       /\ userRoles' = UpdateUserRole(r.target, r.role)
       /\ Commit(p, [Respond(r, 200, "") EXCEPT
                       !.rows = {x \in UpdateUserRole(r.target, r.role) :
                                   x.userId = r.target}])
    /\ UNCHANGED <<authVars, editorVars, seats, bookings, nextId, clock, started>>

\* Status route, third step when the target had no row: setUserRole with the
\* role employee; updateUserRole follows.
StatusSetUserRole(p) ==
    /\ req[p].kind = "statusPatch" /\ req[p].pc = "setUserRole"
    /\ userRoles' = SetUserRole(req[p].target, "employee")
    /\ Commit(p, [req[p] EXCEPT !.pc = "updateUserRole"])
    /\ UNCHANGED <<authVars, editorVars, seats, bookings, nextId, clock, started>>

\* Status route, last step: updateUserRole(target, {isActive}), which leaves
\* the role column alone.
StatusUpdateUserRole(p) ==
    /\ req[p].kind = "statusPatch" /\ req[p].pc = "updateUserRole"
    /\ Commit(p, [Respond(req[p], 200, "") EXCEPT !.rows = GetUserRole(req[p].target)])
    /\ UNCHANGED <<authVars, editorVars, seats, bookings, userRoles, nextId, clock, started>>

\* Delete route, second step: deleteUserRole.
UserDeleteUserRole(p) ==
    /\ req[p].kind = "userDelete" /\ req[p].pc = "deleteUserRole"
    /\ userRoles' = DeleteUserRole(req[p].target)
    /\ Commit(p, Respond(req[p], 200, "User removed successfully"))
    /\ UNCHANGED <<authVars, editorVars, seats, bookings, nextId, clock, started>>

\* The role routes alone.  root is an admin; ann is an admin, an employee or
\* has no row yet; bob is an employee or has no row yet.
InitRoles ==
    /\ seats = [id \in SeatIds |-> SeatRow(SeedName(id))]
    /\ \E ra \in {"", "employee", "admin"}, rb \in {"", "employee"} :
         userRoles = {[userId |-> "root", role |-> "admin"]}
                     \cup {[userId |-> "ann", role |-> x] : x \in {ra} \ {""}}
                     \cup {[userId |-> "bob", role |-> x] : x \in {rb} \ {""}}
    /\ bookings = {} /\ nextId = 1 /\ clock = 1
    /\ req = [p \in Procs |-> Idle]
    /\ response = NoResponse
    /\ started = 0
    /\ InitEditorEmpty
    /\ InitAuthEmpty

RoleRequests ==
    {RoleGetRequest(u) : u \in Users}
    \cup {RolePatchRequest(a, t, role) :
            a \in {"root", "ann"}, t \in Users, role \in {"employee", "admin"}}
    \cup {StatusPatchRequest("root", t) : t \in {"bob", "root"}}
    \cup {UserDeleteRequest(a, t) : a \in {"root", "ann"}, t \in Users}

NextRoles ==
    \E p \in Procs :
        \/ CanStart(p) /\ \E r \in RoleRequests : Start(p, r)
        \/ RoleGetUserRole(p)
        \/ RoleGetSetUserRole(p)
        \/ UserAdminGetUserRole(p)
        \/ UserGetTarget(p)
        \/ RolePatchSetUserRole(p)
        \/ RolePatchUpdateUserRole(p)
        \/ StatusSetUserRole(p)
        \/ StatusUpdateUserRole(p)
        \/ UserDeleteUserRole(p)

SpecRoles == InitRoles /\ [][NextRoles]_vars

\* ----------------------------------------------------- request validation

\* The body of POST /api/bookings as it arrives: a field the body leaves out
\* is Undefined, and slot may be a string outside the enum.
SingleBodies ==
    [seatId : {"seat-t21", Undefined}, date : {"2024-01-10", Undefined},
     slot : Slots \cup {"EVE", Undefined}]

\* insertBookingSchema.parse succeeds: seatId and date are strings, slot is
\* one of the enum's values (userId, userName and userEmail come from the
\* session).
InsertBookingSchemaOk(body) ==
    /\ body.seatId # Undefined
    /\ body.date # Undefined
    /\ body.slot \in {"AM", "PM"}

\* The body of POST /api/bookings/bulk as it arrives: keys are the fields it
\* has; the lists may be empty and a slot may be outside the enum.
BulkBodies ==
    [keys : {{"seatIds", "dates", "slots"}, {"seatIds", "dates"}},
     seatIds : {<<>>, <<"seat-t21">>},
     dates : {<<>>, <<"2024-01-10">>},
     slots : {<<>>, <<"AM", "EVE">>, <<"PM", "AM">>}]

\* Mutant of BulkBookingSchemaOk: slots has no .min(1).
BulkBookingSchemaSlotsMayBeEmpty(body) ==
    /\ {"seatIds", "dates", "slots"} \subseteq body.keys
    /\ Len(body.seatIds) >= 1
    /\ Len(body.dates) >= 1
    /\ \A k \in 1..Len(body.slots) : body.slots[k] \in {"AM", "PM"}

\* bulkBookingSchema.parse succeeds: the three arrays are there, each has an
\* element at least, and every slot is one of the enum's values.
BulkBookingSchemaOk(body) ==
    /\ {"seatIds", "dates", "slots"} \subseteq body.keys
    /\ Len(body.seatIds) >= 1
    /\ Len(body.dates) >= 1
    /\ Len(body.slots) >= 1
    /\ \A k \in 1..Len(body.slots) : body.slots[k] \in {"AM", "PM"}

\* parse throws a ZodError before the first storage call: the catch answers
\* 400 and the handler has ended.
AnswerInvalid(p, kind, u, message) ==
    /\ CanStart(p)
    /\ started' = started + 1
    /\ response' = ResponseOf(Respond(Begin(kind, u), 400, message))
    /\ UNCHANGED <<authVars, editorVars, seats, bookings, userRoles, req, nextId, clock>>

\* POST /api/bookings arrives with any body: the handler parses it and goes
\* on to its first storage call, or answers 400.
SingleArrive(p, u, body) ==
    IF InsertBookingSchemaOk(body)
    THEN Start(p, SingleRequest(u, body.seatId, body.date, body.slot))
    ELSE AnswerInvalid(p, "single", u, "Invalid booking data")

\* POST /api/bookings/bulk arrives with any body.
BulkArrive(p, u, body) ==
    IF BulkBookingSchemaOk(body)
    THEN Start(p, BulkRequest(u, body.seatIds, body.dates, body.slots))
    ELSE AnswerInvalid(p, "bulk", u, "Invalid booking data")

\* The two booking routes with bodies of any shape.
NextValidate ==
    \E p \in Procs :
        \/ CanStart(p) /\ \E u \in {"ann", "bob"}, body \in SingleBodies : SingleArrive(p, u, body)
        \/ CanStart(p) /\ \E u \in {"ann", "bob"}, body \in BulkBodies : BulkArrive(p, u, body)
        \/ SingleGetBookings(p)
        \/ SingleGetSeat(p)
        \/ SingleCreate(p)
        \/ BulkGetSeat(p)
        \/ BulkGetBookings(p)
        \/ BulkCreate(p)

SpecValidate == Init /\ [][NextValidate]_vars

\* ---------------------------------------------------------- floor editor

\* Numbers the admin can put into a grid-size field.
GridInputs == {-1, 1, 2, 3}

\* Seat names the admin types, and name.toLowerCase().
SeatNames == {"A1", "b2"}

ToLowerCase(name) == IF name = "A1" THEN "a1" ELSE name

\* The layouts the editor loads from the server: none, or a 2x2 cluster with
\* one seat, left in its last cell after the others were deleted.
ServerClusters ==
    {<<>>,
     <<[id |-> 1, gridCols |-> 2, gridRows |-> 2,
        isNew |-> FALSE, isDeleted |-> FALSE, isModified |-> FALSE]>>}

ServerSeats(serverClusters) ==
    IF serverClusters = <<>> THEN <<>>
    ELSE <<[id |-> "seat-b2", clusterGroup |-> 1, positionX |-> 1, positionY |-> 1,
            isNew |-> FALSE, isDeleted |-> FALSE]>>

\* const clusters = localClusters.filter(c => !c.isDeleted)
clusters == {localClusters[i] : i \in {j \in DOMAIN localClusters : ~localClusters[j].isDeleted}}

\* seatsByCluster.get(clusterId) || []: the entries of localSeats, by index,
\* that are not deleted and belong to the cluster.
seatsByCluster(clusterId) ==
    {i \in DOMAIN localSeats :
        ~localSeats[i].isDeleted /\ localSeats[i].clusterGroup = clusterId}

\* Mutant of validateGridDimensions: grids of three by three pass.
validateGridDimensionsUpToThree(cols, rows) == cols <= 3 \/ rows <= 3

\* validateGridDimensions: at least one dimension is 2 or less.
validateGridDimensions(cols, rows) == cols <= 2 \/ rows <= 2

\* Mutant of findNextAvailablePosition: the first cell, occupied or not.
findNextAvailablePositionFirstCell(clusterId, gridCols, gridRows) ==
    IF gridCols > 0 /\ gridRows > 0 THEN {[x |-> 0, y |-> 0]} ELSE {}

\* findNextAvailablePosition: the first cell in row-major order that no seat
\* of the cluster occupies; the empty set stands for null.
findNextAvailablePosition(clusterId, gridCols, gridRows) ==
    LET occupied == {[x |-> localSeats[i].positionX, y |-> localSeats[i].positionY] :
                        i \in seatsByCluster(clusterId)}
        free == {c \in [x : 0 .. gridCols - 1, y : 0 .. gridRows - 1] : c \notin occupied}
    IN  {c \in free : \A d \in free : c.y < d.y \/ (c.y = d.y /\ c.x <= d.x)}

\* hasClusterCapacity: the cluster exists and has fewer seats than cells.
hasClusterCapacity(clusterId) ==
    \E c \in clusters :
        /\ c.id = clusterId
        /\ Cardinality(seatsByCluster(clusterId)) < c.gridCols * c.gridRows

\* updateLocalCluster(id, {gridCols, gridRows})
updateLocalCluster(id, cols, rows) ==
    [i \in DOMAIN localClusters |->
        IF localClusters[i].id = id
        THEN [localClusters[i] EXCEPT
                !.gridCols = cols, !.gridRows = rows, !.isModified = TRUE]
        ELSE localClusters[i]]

\* onClick of a cluster on the canvas: setSelectedCluster(cluster.id).
SelectCluster(id) ==
    /\ \E c \in clusters : c.id = id
    /\ selectedCluster' = id
    /\ toastTitle' = ""
    /\ UNCHANGED <<localClusters, localSeats, showCapacityWarning>>
    /\ UNCHANGED <<authVars, seats, bookings, userRoles, req, response, nextId, clock, started>>

\* handleCreateCluster with the dialog's form holding gridCols = cols and
\* gridRows = rows (the fields clamp to 1..10): an invalid grid is refused
\* with a toast; otherwise createLocalCluster appends the cluster.  The id,
\* from Date.now(), is a number no earlier cluster has.
handleCreateCluster(cols, rows) ==
    /\ Len(localClusters) < MaxClusters
    /\ cols >= 1 /\ rows >= 1
    /\ IF ~validateGridDimensions(cols, rows)
       THEN /\ toastTitle' = "Invalid grid size"
            /\ UNCHANGED localClusters
       ELSE /\ localClusters' =
                 Append(localClusters,
                        [id |-> Len(localClusters) + 1,
                         gridCols |-> cols, gridRows |-> rows,
                         isNew |-> TRUE, isDeleted |-> FALSE, isModified |-> FALSE])
            /\ toastTitle' = "Cluster created"
    /\ UNCHANGED <<localSeats, selectedCluster, showCapacityWarning>>
    /\ UNCHANGED <<authVars, seats, bookings, userRoles, req, response, nextId, clock, started>>

\* handleAddSeat with newSeat.name = name: nothing without a selected, live
\* cluster; the capacity warning when the cluster is full or has no free
\* cell; otherwise createLocalSeat at the next available position.
handleAddSeat(name) ==
    /\ Len(localSeats) < MaxSeats
    /\ IF selectedCluster = Null \/ ~\E c \in clusters : c.id = selectedCluster
       THEN /\ toastTitle' = ""
            /\ UNCHANGED <<localSeats, showCapacityWarning>>
       ELSE LET cluster == CHOOSE c \in clusters : c.id = selectedCluster
                position == findNextAvailablePosition(selectedCluster,
                                                      cluster.gridCols, cluster.gridRows)
            IN  IF ~hasClusterCapacity(selectedCluster) \/ position = {}
                THEN /\ showCapacityWarning' = TRUE
                     /\ toastTitle' = ""
                     /\ UNCHANGED localSeats
                ELSE /\ \E pos \in position :
                          localSeats' =
                              Append(localSeats,
                                     [id |-> "seat-" \o ToLowerCase(name),
                                      clusterGroup |-> selectedCluster,
                                      positionX |-> pos.x, positionY |-> pos.y,
                                      isNew |-> TRUE, isDeleted |-> FALSE])
                     /\ toastTitle' = "Seat added"
                     /\ UNCHANGED showCapacityWarning
    /\ UNCHANGED <<localClusters, selectedCluster>>
    /\ UNCHANGED <<authVars, seats, bookings, userRoles, req, response, nextId, clock, started>>

\* The capacity dialog's button: setShowCapacityWarning(false).
CloseCapacityWarning ==
    /\ showCapacityWarning
    /\ showCapacityWarning' = FALSE
    /\ toastTitle' = ""
    /\ UNCHANGED <<localClusters, localSeats, selectedCluster>>
    /\ UNCHANGED <<authVars, seats, bookings, userRoles, req, response, nextId, clock, started>>

\* deleteLocalSeat(id), from the seat list of the selected cluster: every
\* entry with that id is marked deleted.
deleteLocalSeat(id) ==
    /\ \E i \in seatsByCluster(selectedCluster) : localSeats[i].id = id
    /\ localSeats' = [i \in DOMAIN localSeats |->
                        IF localSeats[i].id = id
                        THEN [localSeats[i] EXCEPT !.isDeleted = TRUE]
                        ELSE localSeats[i]]
    /\ toastTitle' = ""
    /\ UNCHANGED <<localClusters, selectedCluster, showCapacityWarning>>
    /\ UNCHANGED <<authVars, seats, bookings, userRoles, req, response, nextId, clock, started>>

\* handleGridChange(clusterId, cols, rows): an invalid grid and a grid too
\* small for the cluster's seats are refused with a toast; otherwise
\* updateLocalCluster sets the grid.  The seats are left where they are.
handleGridChange(clusterId, cols, rows) ==
    /\ IF ~validateGridDimensions(cols, rows)
       THEN /\ toastTitle' = "Invalid grid size"
            /\ UNCHANGED localClusters
       ELSE IF Cardinality(seatsByCluster(clusterId)) > cols * rows
       THEN /\ toastTitle' = "Cannot resize"
            /\ UNCHANGED localClusters
       ELSE /\ localClusters' = updateLocalCluster(clusterId, cols, rows)
            /\ toastTitle' = ""
    /\ UNCHANGED <<localSeats, selectedCluster, showCapacityWarning>>
    /\ UNCHANGED <<authVars, seats, bookings, userRoles, req, response, nextId, clock, started>>

\* A grid field of the selected cluster's panel changes: the handler gets
\* the new number for that dimension and the cluster's own for the other.
GridFieldChange(n) ==
    \E c \in clusters :
        /\ c.id = selectedCluster
        /\ \/ handleGridChange(c.id, n, c.gridRows)
           \/ handleGridChange(c.id, c.gridCols, n)

\* deleteLocalCluster(selectedCluster): the cluster and all its seats are
\* marked deleted and the selection is cleared.
deleteLocalCluster ==
    /\ selectedCluster # Null
    /\ localClusters' = [i \in DOMAIN localClusters |->
                           IF localClusters[i].id = selectedCluster
                           THEN [localClusters[i] EXCEPT !.isDeleted = TRUE]
                           ELSE localClusters[i]]
    /\ localSeats' = [i \in DOMAIN localSeats |->
                        IF localSeats[i].clusterGroup = selectedCluster
                        THEN [localSeats[i] EXCEPT !.isDeleted = TRUE]
                        ELSE localSeats[i]]
    /\ selectedCluster' = Null
    /\ toastTitle' = ""
    /\ UNCHANGED showCapacityWarning
    /\ UNCHANGED <<authVars, seats, bookings, userRoles, req, response, nextId, clock, started>>

\* The editor alone, with the layout it loaded from the server.
InitEditor ==
    /\ seats = [id \in SeatIds |-> SeatRow(SeedName(id))]
    /\ userRoles = SeedRoles
    /\ bookings = {} /\ nextId = 1 /\ clock = 1
    /\ req = [p \in Procs |-> Idle]
    /\ response = NoResponse
    /\ started = 0
    /\ localClusters \in ServerClusters
    /\ localSeats = ServerSeats(localClusters)
    /\ selectedCluster = Null
    /\ showCapacityWarning = FALSE
    /\ toastTitle = ""
    /\ InitAuthEmpty

NextEditor ==
    \/ \E id \in 1 .. MaxClusters : SelectCluster(id)
    \/ \E cols, rows \in GridInputs : handleCreateCluster(cols, rows)
    \/ \E name \in SeatNames : handleAddSeat(name)
    \/ CloseCapacityWarning
    \/ \E name \in SeatNames : deleteLocalSeat("seat-" \o ToLowerCase(name))
    \/ \E n \in GridInputs : GridFieldChange(n)
    \/ deleteLocalCluster

SpecEditor == InitEditor /\ [][NextEditor]_vars

\* ------------------------------------------- invite-only registration

\* Emails and invite codes of the registration bodies.
Emails == {"eve@x.io", "joe@x.io"}

InviteCodes == {"c0de-1", "c0de-2"}

\* gen_random_uuid() for the n-th row of users: an id no earlier row has.
NewUserId(n) == <<"user-1", "user-2", "user-3", "user-4", "user-5">>[n]

\* A row of invites; an email or usedBy of "" and an expiresAt of Null are
\* SQL null.
InviteRow(id, code, email, usedBy, expiresAt, isActive) ==
    [id |-> id, code |-> code, email |-> email, usedBy |-> usedBy,
     expiresAt |-> expiresAt, isActive |-> isActive]

\* POST /api/auth/register with the body's email and inviteCode.
RegisterRequest(email, code) ==
    [Begin("register", "") EXCEPT !.pc = "selectUser", !.email = email,
                                  !.inviteCode = code]

\* DELETE /api/invites/:id by user u.
RevokeRequest(u, id) ==
    [Begin("revoke", u) EXCEPT !.pc = "getUserRole", !.inviteId = id]

\* Register, first step: the select of users by email; a row is answered 400.
RegisterSelectUser(p) ==
    /\ req[p].kind = "register" /\ req[p].pc = "selectUser"
    /\ LET r == req[p] IN
       IF \E u \in users : u.email = r.email
       THEN Commit(p, Respond(r, 400, "Email already registered"))
       ELSE Commit(p, [r EXCEPT !.pc = "selectInvite"])
    /\ UNCHANGED <<authVars, editorVars, seats, bookings, userRoles, nextId, clock, started>>

\* The select of invites WHERE code = ... AND is_active AND used_by IS NULL.
ValidInvites(code) ==
    {i \in invites : i.code = code /\ i.isActive /\ i.usedBy = ""}

\* Register, second step: the select of the invite; no row, an expired
\* invite and an invite for another email are answered 400.
RegisterSelectInvite(p) ==
    /\ req[p].kind = "register" /\ req[p].pc = "selectInvite"
    /\ LET r == req[p] IN
       IF ValidInvites(r.inviteCode) = {}
       THEN Commit(p, Respond(r, 400, "Invalid or expired invite code"))
       ELSE \E invite \in ValidInvites(r.inviteCode) :
              IF invite.expiresAt # Null /\ invite.expiresAt < clock
              THEN Commit(p, Respond(r, 400, "Invite code has expired"))
              ELSE IF invite.email # "" /\ invite.email # r.email
              THEN Commit(p, Respond(r, 400, "This invite code is for a different email"))
              ELSE Commit(p, [r EXCEPT !.pc = "insertUser", !.inviteId = invite.id])
    /\ UNCHANGED <<authVars, editorVars, seats, bookings, userRoles, nextId, clock, started>>

\* Register, third step: the insert into users; users.email is unique, and
\* a refused insert throws and the catch answers 500.
RegisterInsertUser(p) ==
    /\ req[p].kind = "register" /\ req[p].pc = "insertUser"
    /\ LET r == req[p]
           id == NewUserId(Cardinality(users) + 1)
       IN IF \E u \in users : u.email = r.email
          THEN /\ Commit(p, Respond(r, 500, "Registration failed"))
               /\ UNCHANGED users
          ELSE /\ users' = users \cup {[id |-> id, email |-> r.email]}
               /\ Commit(p, [r EXCEPT !.pc = "updateInvite", !.newUser = id])
    /\ UNCHANGED <<invites, editorVars, seats, bookings, userRoles, nextId, clock, started>>

\* Register, fourth step: UPDATE invites SET used_by, used_at, is_active =
\* false WHERE id = invite.id.
RegisterUpdateInvite(p) ==
    /\ req[p].kind = "register" /\ req[p].pc = "updateInvite"
    /\ invites' = {IF i.id = req[p].inviteId
                   THEN [i EXCEPT !.usedBy = req[p].newUser, !.isActive = FALSE]
                   ELSE i : i \in invites}
    /\ Commit(p, [req[p] EXCEPT !.pc = "setUserRole"])
    /\ UNCHANGED <<users, editorVars, seats, bookings, userRoles, nextId, clock, started>>

\* Register, last step: setUserRole(newUser.id, "employee"), answered 201.
RegisterSetUserRole(p) ==
    /\ req[p].kind = "register" /\ req[p].pc = "setUserRole"
    /\ userRoles' = SetUserRole(req[p].newUser, "employee")
    /\ Commit(p, Respond(req[p], 201, ""))
    /\ UNCHANGED <<authVars, editorVars, seats, bookings, nextId, clock, started>>

\* Revoke, first step: getUserRole; a caller who is no admin is answered 403.
RevokeGetUserRole(p) ==
    /\ req[p].kind = "revoke" /\ req[p].pc = "getUserRole"
    /\ LET r == req[p] IN
       IF NotAdmin(RoleOf(r.user))
       THEN Commit(p, Respond(r, 403, "Admin access required"))
       ELSE Commit(p, [r EXCEPT !.pc = "updateInvite"])
    /\ UNCHANGED <<authVars, editorVars, seats, bookings, userRoles, nextId, clock, started>>

\* Revoke, second step: UPDATE invites SET is_active = false WHERE id = ...
RevokeUpdateInvite(p) ==
    /\ req[p].kind = "revoke" /\ req[p].pc = "updateInvite"
    /\ invites' = {IF i.id = req[p].inviteId THEN [i EXCEPT !.isActive = FALSE]
                   ELSE i : i \in invites}
    /\ Commit(p, Respond(req[p], 200, "Invite revoked"))
    /\ UNCHANGED <<users, editorVars, seats, bookings, userRoles, nextId, clock, started>>

\* The registration routes alone.  The first invite is active, unused and
\* not expired, for any email or for eve's; the second is used, revoked or
\* expired.
InitInvites ==
    /\ seats = [id \in SeatIds |-> SeatRow(SeedName(id))]
    /\ userRoles = SeedRoles
    /\ bookings = {} /\ nextId = 1 /\ clock = 2
    /\ req = [p \in Procs |-> Idle]
    /\ response = NoResponse
    /\ started = 0
    /\ InitEditorEmpty
    /\ users = {[id |-> "user-1", email |-> "amy@x.io"]}
    /\ \E email \in {"", "eve@x.io"} :
       \E second \in {InviteRow("inv-2", "c0de-2", "", "user-1", 9, FALSE),
                      InviteRow("inv-2", "c0de-2", "", "", 9, FALSE),
                      InviteRow("inv-2", "c0de-2", "", "", 1, TRUE)} :
         invites = {InviteRow("inv-1", "c0de-1", email, "", 9, TRUE), second}

InviteRequests ==
    {RegisterRequest(e, c) : e \in Emails, c \in InviteCodes}
    \cup {RevokeRequest(u, "inv-1") : u \in {"root", "bob"}}

NextInvites ==
    \E p \in Procs :
        \/ CanStart(p) /\ \E r \in InviteRequests : Start(p, r)
        \/ RegisterSelectUser(p)
        \/ RegisterSelectInvite(p)
        \/ RegisterInsertUser(p)
        \/ RegisterUpdateInvite(p)
        \/ RegisterSetUserRole(p)
        \/ RevokeGetUserRole(p)
        \/ RevokeUpdateInvite(p)

SpecInvites == InitInvites /\ [][NextInvites]_vars

\* --------------------------------------------------------------- properties

Active(b) == b.cancelledAt = Null

SameSlot(b, s, d, l) == b.seatId = s /\ b.date = d /\ b.slot = l

ActiveRows(s, d, l) == {b \in bookings : SameSlot(b, s, d, l) /\ Active(b)}

\* The seat has a row, and is neither blocked nor long-term reserved.
SeatBookable(s) ==
    SeatExists(s) /\ ~seats[s].isBlocked /\ ~seats[s].isLongTermReserved

\* The seat has a row, and is blocked or long-term reserved.
SeatWithheld(s) ==
    SeatExists(s) /\ (seats[s].isBlocked \/ seats[s].isLongTermReserved)

\* The step is a step of the request in slot p.
StepOf(p) == req'[p] # req[p]

\* The step is the one in which the request in slot p is answered.
Answered(p) == req[p].pc # "idle" /\ req'[p].pc = "idle"

\* C1: after any interleaving of single-booking requests, every seat, date
\* and slot has at most one booking that is not cancelled.
C1_SingleBookingsExclusive ==
    \A s \in SeatIds, d \in Dates, l \in Slots : Cardinality(ActiveRows(s, d, l)) <= 1

\* C2: of two single-booking requests of different users that run
\* concurrently for one seat, date and slot of a bookable seat, one is
\* answered 201 and the other 409 "slot taken": the request that reaches its
\* insert when the other user's booking is already active is answered 409,
\* not 201 and not 500.
C2_RaceLoserGetsConflict ==
    [][\A q \in Procs :
         (/\ req[q].kind = "single" /\ req[q].pc = "create" /\ Answered(q)
          /\ SeatBookable(req[q].seatId)
          /\ \E b \in ActiveRows(req[q].seatId, req[q].date, req[q].slot) :
               b.userId # req[q].user)
         => (response'.status = 409 /\ response'.message = "Slot already booked")]_vars

\* No two bookings that are not cancelled share seat, date and slot.
AtMostOneActiveBooking ==
    \A b1, b2 \in bookings :
        (Active(b1) /\ Active(b2) /\ SameSlot(b1, b2.seatId, b2.date, b2.slot))
        => b1.id = b2.id

\* C3: in every reachable state, under any interleaving of single-booking,
\* bulk-booking and cancel requests, no two bookings that are not cancelled
\* share seat, date and slot; in particular the insert of a bulk request
\* whose availability reads came before another request's insert commits no
\* second active booking: no step of a bulk request takes a state with at
\* most one active booking a slot to a state with two.
C3_BulkKeepsAtMostOneActive ==
    [][\A p \in Procs :
         (req[p].kind = "bulk" /\ StepOf(p) /\ AtMostOneActiveBooking)
         => AtMostOneActiveBooking']_vars

\* C4: while the seat of a single-booking request is blocked or long-term
\* reserved, no step of the request creates a booking row or passes the seat
\* checks, and the answer, when one is given, is 409: a request whose seat is
\* blocked or long-term reserved from start to end is rejected with a
\* conflict, whatever bookings exist.
C4_WithheldSeatRejected ==
    [][\A p \in Procs :
         (/\ req[p].kind = "single" /\ req[p].pc \in {"getBookings", "getSeat"}
          /\ StepOf(p)
          /\ SeatWithheld(req[p].seatId))
         => /\ bookings' = bookings
            /\ req'[p].pc # "create"
            /\ req[p].pc = "getSeat" => Answered(p)
            /\ Answered(p) => (response'.kind = "single" /\ response'.status = 409)]_vars

\* C4 witness: a single-booking request was answered "Seat is blocked" while
\* the table holds a booking row of that seat.
C4_Witness ==
    /\ response.kind = "single" /\ response.status = 409
    /\ response.message = "Seat is blocked"
    /\ \E b \in bookings : SeatExists(b.seatId) /\ seats[b.seatId].isBlocked

\* C5: after the only active booking of a seat, date and slot has been
\* cancelled, a single-booking request of another user for them, on a
\* bookable seat, passes the slot check and the seat checks, and its insert
\* adds an active booking and is answered 201, every earlier row still
\* stored.
C5_CancelledSlotBookable ==
    [][\A p \in Procs :
         (/\ req[p].kind = "single" /\ StepOf(p)
          /\ SeatBookable(req[p].seatId)
          /\ ActiveRows(req[p].seatId, req[p].date, req[p].slot) = {}
          /\ \E c \in bookings :
               /\ SameSlot(c, req[p].seatId, req[p].date, req[p].slot)
               /\ ~Active(c) /\ c.userId # req[p].user)
         => /\ req[p].pc = "getBookings" => req'[p].pc = "getSeat"
            /\ req[p].pc = "getSeat" => req'[p].pc = "create"
            /\ req[p].pc = "create" =>
                 /\ response'.kind = "single" /\ response'.status = 201
                 /\ bookings \subseteq bookings'
                 /\ \E b \in bookings' \ bookings :
                      /\ SameSlot(b, req[p].seatId, req[p].date, req[p].slot)
                      /\ Active(b) /\ b.userId = req[p].user
                      /\ response'.rows = {b}]_vars

\* C5 witness: a single-booking request was answered 201 with a booking that
\* is the only active one of its seat, date and slot, and a cancelled booking
\* of another user for them is stored.
C5_Witness ==
    /\ response.kind = "single" /\ response.status = 201
    /\ \E b \in response.rows, c \in bookings :
         /\ ActiveRows(b.seatId, b.date, b.slot) = {b}
         /\ SameSlot(c, b.seatId, b.date, b.slot)
         /\ ~Active(c) /\ c.userId # b.userId

\* C6: the authorization step of a cancel request by a user who does not own
\* the booking and is no admin answers 403 and leaves the bookings as they
\* are: the booking's cancelledAt is not set.
C6_ForbiddenCancelChangesNothing ==
    [][\A p \in Procs :
         (/\ req[p].kind = "cancel" /\ req[p].pc = "getUserRole" /\ StepOf(p)
          /\ \E b \in bookings : b.id = req[p].bookingId /\ b.userId # req[p].user
          /\ RoleOf(req[p].user) # "admin")
         => /\ Answered(p)
            /\ response'.kind = "cancel" /\ response'.status = 403
            /\ bookings' = bookings]_vars

\* C6 witness: a cancel request was answered 403 and the one booking there
\* is, ann's, is still active.
C6_Witness ==
    /\ response.kind = "cancel" /\ response.status = 403
    /\ bookings = {SeedBooking(Null)}

\* C7: the step that deletes a seat removes, with the seat's row, exactly the
\* booking rows of that seat: after it no booking, active or cancelled, has
\* that seatId, and the active bookings of the seat on any date are none.
C7_DeleteSeatCascades ==
    [][\A p \in Procs :
         (req[p].kind = "deleteSeat" /\ req[p].pc = "deleteSeat" /\ StepOf(p))
         => /\ ~SeatExists(req[p].seatId)'
            /\ \A b \in bookings' : b.seatId # req[p].seatId
            /\ \A d \in Dates : GetBookingsBySeatAndDate(req[p].seatId, d)' = {}
            /\ bookings' = {b \in bookings : b.seatId # req[p].seatId}]_vars

\* C7 witness: a seat delete was answered 200, the seat has no row, and the
\* two or more booking rows that were created, all of that seat, are gone.
C7_Witness ==
    /\ response.kind = "deleteSeat" /\ response.status = 200
    /\ \E s \in SeatIds : ~SeatExists(s)
    /\ nextId >= 3 /\ bookings = {}

\* The bulk request of C8 is answered: seats [t21, t22], both dates, both
\* slots, t21 bookable and free on both dates, t22 blocked.
C8_Case(p) ==
    /\ req[p].kind = "bulk" /\ Answered(p)
    /\ req[p].seatIds = <<"seat-t21", "seat-t22">>
    /\ req[p].dates = <<"2024-01-10", "2024-01-11">>
    /\ req[p].slots = <<"AM", "PM">>
    /\ SeatBookable("seat-t21")
    /\ \A d \in Dates : GetBookingsBySeatAndDate("seat-t21", d) = {}
    /\ SeatExists("seat-t22") /\ seats["seat-t22"].isBlocked

\* The answer is 201 with one booking of t21 for each date and slot.
C8_FourCreated ==
    /\ response'.kind = "bulk" /\ response'.status = 201
    /\ response'.created = 4 /\ Cardinality(response'.rows) = 4
    /\ {<<b.seatId, b.date, b.slot>> : b \in response'.rows}
         = {<<"seat-t21", d, l>> : d \in Dates, l \in Slots}
    /\ response'.rows \subseteq bookings'

\* C8 as claimed: that bulk request creates exactly 4 bookings and reports
\* exactly 2 conflicts.
C8_FourCreatedTwoConflicts ==
    [][\A p \in Procs :
         C8_Case(p) => (C8_FourCreated /\ Len(response'.conflicts) = 2)]_vars

\* C8 as amended: that bulk request creates exactly 4 bookings and reports
\* exactly 1 conflict, the one of the blocked seat.
C8_FourCreatedOneConflict ==
    [][\A p \in Procs :
         C8_Case(p) =>
           /\ C8_FourCreated
           /\ response'.conflicts = <<(<<"Seat", "T22", "is blocked">>)>>
           /\ response'.failed = 1]_vars

\* C8 witness: a bulk request was answered 201 with 4 bookings of t21 and the
\* one conflict of the blocked t22.
C8_Witness ==
    /\ response.kind = "bulk" /\ response.status = 201 /\ response.created = 4
    /\ \A b \in response.rows : b.seatId = "seat-t21"
    /\ response.conflicts = <<(<<"Seat", "T22", "is blocked">>)>>
    /\ SeatExists("seat-t22") /\ seats["seat-t22"].isBlocked

\* C9: the seat step of a bulk request for a seat id that has no row, or
\* whose seat is blocked or long-term reserved, adds exactly one conflict and
\* no booking to create, however many dates and slots the request has, and
\* goes on to the next seat id, or to the end of the loops, with no booking
\* lookup for that seat.
C9_RejectedSeatOneConflict ==
    [][\A p \in Procs :
         (/\ req[p].kind = "bulk" /\ req[p].pc = "getSeat" /\ StepOf(p)
          /\ ~SeatBookable(req[p].seatIds[req[p].i]))
         => /\ req'[p].pc # "getBookings"
            /\ req'[p].pc = "getSeat" =>
                 /\ req'[p].i = req[p].i + 1
                 /\ Len(req'[p].conflicts) = Len(req[p].conflicts) + 1
                 /\ req'[p].bookingsToCreate = req[p].bookingsToCreate
            /\ req'[p].pc = "createBulk" =>
                 /\ req[p].i = Len(req[p].seatIds)
                 /\ Len(req'[p].conflicts) = Len(req[p].conflicts) + 1
                 /\ req'[p].bookingsToCreate = req[p].bookingsToCreate
            /\ Answered(p) =>
                 /\ req[p].i = Len(req[p].seatIds)
                 /\ req[p].bookingsToCreate = <<>>
                 /\ Len(response'.conflicts) = Len(req[p].conflicts) + 1
            /\ bookings' = bookings]_vars

\* C9 witness: a bulk request with two dates and two slots is past a first
\* seat id that was rejected: one conflict, nothing to create.
C9_Witness ==
    \E p \in Procs :
        /\ req[p].kind = "bulk" /\ req[p].pc = "getSeat" /\ req[p].i = 2
        /\ Len(req[p].dates) = 2 /\ Len(req[p].slots) = 2
        /\ Len(req[p].conflicts) = 1 /\ req[p].bookingsToCreate = <<>>

\* C10: a bulk request never calls the insert with nothing to create; when
\* its loops end with nothing to create it is answered 409 "No bookings could
\* be created" with the conflicts collected, and the bookings are unchanged.
C10_NothingToCreateIs409 ==
    [][\A p \in Procs :
         (req[p].kind = "bulk" /\ StepOf(p))
         => /\ req'[p].pc = "createBulk" => Len(req'[p].bookingsToCreate) > 0
            /\ (req[p].pc \in {"getSeat", "getBookings"} /\ Answered(p)) =>
                 /\ response'.kind = "bulk" /\ response'.status = 409
                 /\ response'.message = "No bookings could be created"
                 /\ Len(response'.conflicts) > Len(req[p].conflicts)
                 /\ SubSeq(response'.conflicts, 1, Len(req[p].conflicts))
                      = req[p].conflicts
                 /\ response'.rows = {}
                 /\ bookings' = bookings
            /\ (req[p].pc = "createBulk" /\ response'.status = 201) =>
                 response'.created > 0]_vars

\* C10 witness: a bulk request was answered 409 with a seat conflict and a
\* slot conflict, and no booking was added to the one there was.
C10_Witness ==
    /\ response.kind = "bulk" /\ response.status = 409
    /\ response.message = "No bookings could be created"
    /\ Len(response.conflicts) >= 2
    /\ \E k \in 1..Len(response.conflicts) : Len(response.conflicts[k]) = 5
    /\ \E k \in 1..Len(response.conflicts) : Len(response.conflicts[k]) = 3
    /\ bookings = {SeedBooking(Null)}

\* The combinations of a bulk request as index triples (seat, date, slot), in
\* the order seat outermost, then date, then slot.
Combinations(r) ==
    LET m == Len(r.dates)
        q == Len(r.slots)
    IN [x \in 1..(Len(r.seatIds) * m * q) |->
          <<((x - 1) \div (m * q)) + 1, (((x - 1) \div q) % m) + 1, ((x - 1) % q) + 1>>]

\* The combination passes its checks in this state: the seat is bookable and
\* no active booking has its seat, date and slot.
Passes(r, c) ==
    /\ SeatBookable(r.seatIds[c[1]])
    /\ ActiveRows(r.seatIds[c[1]], r.dates[c[2]], r.slots[c[3]]) = {}

\* The combination is reported as a conflict in this state: the first
\* combination of a seat that is not bookable, or a taken slot of one that is.
Reported(r, c) ==
    IF SeatBookable(r.seatIds[c[1]])
    THEN ActiveRows(r.seatIds[c[1]], r.dates[c[2]], r.slots[c[3]]) # {}
    ELSE c[2] = 1 /\ c[3] = 1

\* C11: a bulk request that runs alone, some of whose combinations pass
\* their checks while others are rejected, is answered 201: it inserts one
\* active booking of the caller for every combination that passed, nothing
\* else, and the answer carries those rows and the conflicts.
C11_RejectionsDoNotAbort ==
    [][\A p \in Procs :
         LET r == req[p]
             all == {Combinations(r)[x] : x \in DOMAIN Combinations(r)}
             passed == {c \in all : Passes(r, c)}
         IN (r.kind = "bulk" /\ Answered(p) /\ passed # {} /\ passed # all)
            => /\ response'.kind = "bulk" /\ response'.status = 201
               /\ Cardinality(response'.rows) = Cardinality(passed)
               /\ {<<b.seatId, b.date, b.slot>> : b \in response'.rows}
                    = {<<r.seatIds[c[1]], r.dates[c[2]], r.slots[c[3]]>> : c \in passed}
               /\ \A b \in response'.rows : Active(b) /\ b.userId = r.user
               /\ response'.rows \cap bookings = {}
               /\ bookings' = bookings \cup response'.rows
               /\ Len(response'.conflicts) > 0]_vars

\* C11 witness: a bulk request was answered 201 with bookings of one seat
\* and the conflict of a seat id that has no row.
C11_Witness ==
    /\ response.kind = "bulk" /\ response.status = 201
    /\ response.rows # {} /\ response.rows \subseteq bookings
    /\ \E k \in 1..Len(response.conflicts) :
         /\ Len(response.conflicts[k]) = 3
         /\ response.conflicts[k][3] = "not found"

\* C12: in the 201 answer of a bulk request, created is the number of rows
\* the request's insert added to bookings, which is the number of bookings
\* it had to create, and failed is the number of conflicts collected.
C12_ReportCounts ==
    [][\A p \in Procs :
         (/\ req[p].kind = "bulk" /\ req[p].pc = "createBulk" /\ Answered(p)
          /\ response'.status = 201)
         => /\ response'.created = Cardinality(bookings' \ bookings)
            /\ response'.created = Len(req[p].bookingsToCreate)
            /\ response'.created = Cardinality(response'.rows)
            /\ response'.failed = Len(req[p].conflicts)
            /\ response'.failed = Len(response'.conflicts)]_vars

\* C12 witness: a bulk request of 2 seats, 2 dates and 2 slots was answered
\* with created = 3 and failed = 2 (a taken slot and a rejected seat).
C12_Witness ==
    /\ response.kind = "bulk" /\ response.status = 201
    /\ response.created = 3 /\ response.failed = 2
    /\ Cardinality(response.rows) = 3 /\ Len(response.conflicts) = 2

\* The bookings to create of a bulk request that runs alone: the passing
\* combinations in the order of Combinations.
C13_ExpectedToCreate(r) ==
    LET Pass(c) == Passes(r, c)
        sel == SelectSeq(Combinations(r), Pass)
    IN [x \in 1..Len(sel) |->
          BookingData(r.user, r.seatIds[sel[x][1]], r.dates[sel[x][2]], r.slots[sel[x][3]])]

\* The conflicts of a bulk request that runs alone: one for each reported
\* combination, in the order of Combinations.
C13_ExpectedConflicts(r) ==
    LET Rep(c) == Reported(r, c)
        sel == SelectSeq(Combinations(r), Rep)
        Entry(c) ==
            LET id == r.seatIds[c[1]] IN
            IF ~SeatExists(id) THEN <<"Seat", id, "not found">>
            ELSE IF seats[id].isBlocked THEN <<"Seat", seats[id].name, "is blocked">>
            ELSE IF seats[id].isLongTermReserved
                 THEN <<"Seat", seats[id].name, "is reserved for long-term use">>
            ELSE <<seats[id].name, "on", r.dates[c[2]], r.slots[c[3]], "already booked">>
    IN [x \in 1..Len(sel) |-> Entry(sel[x])]

\* C13: when the loops of a bulk request that runs alone end, the list of
\* bookings to create holds the passing combinations, and the conflict list
\* the rejected seats and taken slots, both in the order of the request's
\* lists: seat outermost, then date, then slot.
C13_CallerOrderKept ==
    [][\A p \in Procs :
         (/\ req[p].kind = "bulk" /\ req[p].pc \in {"getSeat", "getBookings"}
          /\ StepOf(p))
         => /\ req'[p].pc = "createBulk" =>
                 /\ req'[p].bookingsToCreate = C13_ExpectedToCreate(req[p])
                 /\ req'[p].conflicts = C13_ExpectedConflicts(req[p])
            /\ Answered(p) =>
                 /\ C13_ExpectedToCreate(req[p]) = <<>>
                 /\ response'.conflicts = C13_ExpectedConflicts(req[p])]_vars

\* C13 witness: the loops of a bulk request of 2 seats, 2 dates and 2 slots
\* have ended with 3 bookings to create, the first two of them for the first
\* seat id and date in the order of the slots, and a conflict.
C13_Witness ==
    \E p \in Procs :
        LET r == req[p] IN
        /\ r.kind = "bulk" /\ r.pc = "createBulk"
        /\ Len(r.seatIds) = 2 /\ Len(r.dates) = 2 /\ Len(r.slots) = 2
        /\ r.slots[1] # r.slots[2]
        /\ Len(r.bookingsToCreate) = 3 /\ Len(r.conflicts) >= 1
        /\ r.bookingsToCreate[1].slot = r.slots[1]
        /\ r.bookingsToCreate[2].slot = r.slots[2]
        /\ r.bookingsToCreate[2].date = r.dates[1]

\* C14: a single-booking request for a seat that is blocked (or, not
\* blocked, long-term reserved) and whose slot has an active booking is
\* answered with the blocked (or long-term) reason, not "Slot already
\* booked": the seat checks come before the booking history.
C14_SeatReasonBeforeSlotTaken ==
    [][\A p \in Procs :
         LET r == req[p] IN
         (/\ r.kind = "single" /\ Answered(p)
          /\ SeatWithheld(r.seatId)
          /\ ActiveRows(r.seatId, r.date, r.slot) # {})
         => /\ response'.status = 409
            /\ response'.message =
                 IF seats[r.seatId].isBlocked THEN "Seat is blocked"
                 ELSE "Seat is reserved for long-term use"]_vars

\* C15: the two availability steps of a single-booking request (the
\* bookings lookup and the seat lookup) write nothing; a request they
\* reject with 404 or 409 leaves seats and bookings as they were, and the
\* same check evaluated again in the state after the answer gives the same
\* answer.
C15_AvailabilityReadsOnly ==
    [][\A p \in Procs : \A r \in {req[p]} :
         (r.kind = "single" /\ r.pc \in {"getBookings", "getSeat"} /\ StepOf(p))
         => /\ seats' = seats /\ bookings' = bookings
            /\ nextId' = nextId /\ userRoles' = userRoles
            /\ Answered(p) =>
                 /\ response'.kind = "single" /\ response'.status \in {404, 409}
                 /\ response'.rows = {}
                 /\ r.pc = "getBookings" => ResponseOf(SingleSlotCheck(r))' = response'
                 /\ r.pc = "getSeat" => ResponseOf(SingleSeatCheck(r))' = response']_vars

\* C15 witness: a single-booking request was answered 404 for a seat with
\* no row, or 409 for a taken slot, and the tables hold what they held.
C15_Witness ==
    /\ response.kind = "single"
    /\ \/ response.status = 404 /\ ~SeatExists("seat-t21") /\ bookings = {}
       \/ /\ response.status = 409 /\ response.message = "Slot already booked"
          /\ bookings = {SeedBooking(Null)} /\ nextId = 2

\* C16: once a booking's cancelledAt is set it stays set for as long as the
\* row exists: no step makes a cancelled booking active again.
C16_CancelledStaysCancelled ==
    [][\A b \in bookings :
         ~Active(b) => \A c \in bookings' : c.id = b.id => ~Active(c)]_vars

\* C16 witness: a booking that was cancelled has been cancelled once more
\* (its cancelledAt is later than any first cancellation can give) and a
\* cancel request was answered 200 with it.
C16_Witness ==
    /\ response.kind = "cancel" /\ response.status = 200
    /\ \E b \in bookings : b.cancelledAt = 3 /\ b \in response.rows

\* C17 as claimed: a cancelled booking row is stored in every later state,
\* whatever step is taken.
C17_CancelledNeverDeleted ==
    [][\A b \in bookings :
         ~Active(b) => \E c \in bookings' : c.id = b.id]_vars

\* C17 as amended: a cancelled booking row is stored, cancelled, in every
\* later state in which its seat has a row; only the delete of its seat
\* removes it, with the seat's other bookings.
C17_CancelledKeptWhileSeatExists ==
    [][\A b \in bookings :
         ~Active(b) =>
           /\ SeatExists(b.seatId)' => \E c \in bookings' : c.id = b.id /\ ~Active(c)
           /\ (~\E c \in bookings' : c.id = b.id) =>
                /\ ~SeatExists(b.seatId)'
                /\ \E p \in Procs : req[p].kind = "deleteSeat" /\ Answered(p)]_vars

\* C17 witness: a cancelled booking is stored after a cancel request for it
\* came again and after an admin changed its seat.
C17_Witness ==
    /\ \E b \in bookings : ~Active(b) /\ SeatExists(b.seatId)
    /\ response.status = 200
    /\ response.kind \in {"block", "longTerm"}

\* The body of a single-booking request is malformed: a field is missing or
\* the slot is neither AM nor PM.
C18_SingleMalformed(body) ==
    \/ Undefined \in {body.seatId, body.date, body.slot}
    \/ body.slot \notin Slots

\* The body of a bulk request is malformed: a list is missing or empty, or a
\* slot is neither AM nor PM.
C18_BulkMalformed(body) ==
    \/ \E f \in {"seatIds", "dates", "slots"} : f \notin body.keys
    \/ body.seatIds = <<>> \/ body.dates = <<>> \/ body.slots = <<>>
    \/ \E k \in DOMAIN body.slots : body.slots[k] \notin Slots

\* C18: the arrival of a single or bulk booking request with a malformed
\* body is answered 400 at once: no handler step follows for it, and seats
\* and bookings are unchanged; no request with a malformed field ever gets
\* to a storage call.
C18_MalformedBodyIs400 ==
    [][/\ started' # started =>
          \A p \in Procs, u \in {"ann", "bob"} :
            /\ \A body \in SingleBodies :
                 (C18_SingleMalformed(body) /\ SingleArrive(p, u, body))
                 => /\ response'.kind = "single" /\ response'.status = 400
                    /\ req' = req /\ seats' = seats /\ bookings' = bookings
            /\ \A body \in BulkBodies :
                 (C18_BulkMalformed(body) /\ BulkArrive(p, u, body))
                 => /\ response'.kind = "bulk" /\ response'.status = 400
                    /\ req' = req /\ seats' = seats /\ bookings' = bookings
       /\ \A p \in Procs :
            /\ req'[p].kind = "single" =>
                 /\ req'[p].slot \in Slots
                 /\ Undefined \notin {req'[p].seatId, req'[p].date}
            /\ req'[p].kind = "bulk" =>
                 /\ req'[p].seatIds # <<>> /\ req'[p].dates # <<>> /\ req'[p].slots # <<>>
                 /\ \A k \in DOMAIN req'[p].slots : req'[p].slots[k] \in Slots]_vars

\* C18 witness: a request was answered 400 after an earlier request had
\* been accepted and had created a booking, which is all there is.
C18_Witness ==
    /\ response.status = 400 /\ response.message = "Invalid booking data"
    /\ started = 2 /\ nextId = 2 /\ Cardinality(bookings) = 1
    /\ \A p \in Procs : req[p].pc = "idle"

\* No two seat rows have the same name.
SeatNamesUnique ==
    \A a, b \in DOMAIN seats : seats[a].name = seats[b].name => a = b

\* C19: no two seats ever share a name (nor an id: the rows are keyed by
\* it), also after concurrent create requests with the same name or id; a
\* step of a create request made while a row with its id or its name exists
\* leaves seats unchanged and does not answer 201: the request is rejected
\* with 409 by its lookups, or its insert is refused.
C19_SeatsUnique ==
    [][/\ SeatNamesUnique'
       /\ \A p \in Procs : \A r \in {req[p]} :
            (/\ r.kind = "create" /\ r.pc # "getUserRole" /\ StepOf(p)
             /\ (SeatExists(r.seatId) \/ SeatNameExists(r.seatName)))
            => /\ seats' = seats
               /\ r.pc = "getSeat" /\ SeatExists(r.seatId) =>
                    Answered(p) /\ response'.status = 409
               /\ r.pc = "getSeatByName" /\ SeatNameExists(r.seatName) =>
                    Answered(p) /\ response'.status = 409
               /\ r.pc = "createSeat" => Answered(p) /\ response'.status = 500
               /\ Answered(p) => response'.status \in {409, 500}]_vars

\* C19 witness: of two concurrent create requests with one name, one has
\* inserted its row and the other's insert was refused.
C19_Witness ==
    /\ response.kind = "create" /\ response.status = 500
    /\ \E s \in DOMAIN seats : s \notin SeatIds /\ seats[s].name = "X1"
    /\ Cardinality(DOMAIN seats) = 3

\* C20: every step of a seat create, update, block, long-term or delete
\* request of a user whose stored role is not admin leaves seats and
\* bookings unchanged, and the request is answered 403 by its first step.
C20_NonAdminSeatRequestIs403 ==
    [][\A p \in Procs : \A r \in {req[p]} :
         (/\ r.kind \in {"create", "update", "block", "longTerm", "deleteSeat"}
          /\ StepOf(p) /\ r.pc # "idle"
          /\ RoleOf(r.user) # "admin")
         => /\ r.pc = "getUserRole"
            /\ Answered(p)
            /\ response'.kind = r.kind /\ response'.status = 403
            /\ seats' = seats /\ bookings' = bookings]_vars

\* C20 witness: both requests were made, the last answer is the 403 of a
\* non-admin's create request, and the seats are the seeded ones.
C20_Witness ==
    /\ response.kind = "create" /\ response.status = 403
    /\ response.message = "Admin access required"
    /\ started = 2 /\ \A p \in Procs : req[p].pc = "idle"
    /\ seats = [id \in SeatIds |-> SeatRow(SeedName(id))]

\* The elements of a sequence.
Range(e) == {e[k] : k \in DOMAIN e}

\* C23 as claimed: every conflict entry in the answer of a bulk request
\* names a seat, a date and a slot of the request.
C23_EveryConflictNamesSeatDateSlot ==
    [][\A p \in Procs : \A r \in {req[p]} :
         (r.kind = "bulk" /\ Answered(p))
         => \A k \in DOMAIN response'.conflicts :
              \E c \in Range(Combinations(r)) :
                 /\ SeatExists(r.seatIds[c[1]])
                 /\ {seats[r.seatIds[c[1]]].name, r.dates[c[2]], r.slots[c[3]]}
                      \subseteq Range(response'.conflicts[k])]_vars

\* C23 as amended: in the answer of a bulk request that runs alone, the
\* entry of a taken slot names the seat, the date and the slot of a
\* combination of the request that is taken; the entry of a rejected seat
\* names that seat only (its name, or its id when it has no row) with the
\* reason, and no date or slot.
C23_SlotConflictsNameSeatDateSlot ==
    [][\A p \in Procs : \A r \in {req[p]} :
         (r.kind = "bulk" /\ Answered(p))
         => \A k \in DOMAIN response'.conflicts :
              LET e == response'.conflicts[k] IN
              \/ /\ Len(e) = 5
                 /\ \E c \in Range(Combinations(r)) :
                      /\ SeatBookable(r.seatIds[c[1]])
                      /\ ActiveRows(r.seatIds[c[1]], r.dates[c[2]], r.slots[c[3]]) # {}
                      /\ e[1] = seats[r.seatIds[c[1]]].name
                      /\ e[3] = r.dates[c[2]] /\ e[4] = r.slots[c[3]]
              \/ /\ Len(e) = 3
                 /\ \E i \in DOMAIN r.seatIds :
                      /\ ~SeatBookable(r.seatIds[i])
                      /\ e[2] = IF SeatExists(r.seatIds[i]) THEN seats[r.seatIds[i]].name
                                ELSE r.seatIds[i]
                 /\ Range(e) \cap (Dates \cup Slots) = {}]_vars

\* C23 witness: a bulk request was answered 201 with the conflict of a taken
\* slot and the conflict of a rejected seat.
C23_Witness ==
    /\ response.kind = "bulk" /\ response.status = 201
    /\ \E k \in DOMAIN response.conflicts :
         /\ Len(response.conflicts[k]) = 5
         /\ response.conflicts[k][3] \in Dates /\ response.conflicts[k][4] \in Slots
    /\ \E k \in DOMAIN response.conflicts : Len(response.conflicts[k]) = 3

\* C24: no step of a single-booking request whose seat id has no row adds a
\* booking; its bookings lookup finds nothing and its seat lookup answers
\* 404 "Seat not found".
C24_MissingSeatIs404 ==
    [][\A p \in Procs : \A r \in {req[p]} :
         (r.kind = "single" /\ StepOf(p) /\ ~SeatExists(r.seatId))
         => /\ bookings' = bookings
            /\ r.pc = "getBookings" => req'[p].pc = "getSeat"
            /\ r.pc = "getSeat" =>
                 /\ Answered(p)
                 /\ response'.kind = "single" /\ response'.status = 404
                 /\ response'.message = "Seat not found"]_vars

\* C24 witness: a single-booking request was answered 404 after the seat
\* was deleted together with the booking it had.
C24_Witness ==
    /\ response.kind = "single" /\ response.status = 404
    /\ response.message = "Seat not found"
    /\ ~SeatExists("seat-t21") /\ nextId = 2 /\ bookings = {}

\* C25: a cancel request of the owner or of an admin for a booking that is
\* cancelled already passes the authorization step, and its last step is
\* answered 200 with the booking, still cancelled, its cancelledAt set to
\* the time of this call.
C25_RecancelOverwrites ==
    [][\A p \in Procs : \A r \in {req[p]} :
         (/\ r.kind = "cancel" /\ StepOf(p)
          /\ \E b \in bookings :
               /\ b.id = r.bookingId /\ ~Active(b)
               /\ (b.userId = r.user \/ RoleOf(r.user) = "admin"))
         => /\ r.pc = "getBooking" => req'[p].pc = "getUserRole"
            /\ r.pc = "getUserRole" => req'[p].pc = "cancelBooking"
            /\ r.pc = "cancelBooking" =>
                 /\ response'.kind = "cancel" /\ response'.status = 200
                 /\ \E c \in bookings' :
                      /\ c.id = r.bookingId /\ ~Active(c)
                      /\ c.cancelledAt = clock'
                      /\ response'.rows = {c}]_vars

\* C25 witness: the seeded booking, cancelled at time 1, was cancelled again
\* at a later time, which is its cancelledAt now.
C25_Witness ==
    /\ response.kind = "cancel" /\ response.status = 200
    /\ \E b \in response.rows :
         b.id = 1 /\ b.cancelledAt = clock /\ b.cancelledAt > 2 /\ b \in bookings

\* C26: the only step of a bulk request that changes bookings is its one
\* insert, which adds a row for every booking to create at once: a state
\* with some but not all of them does not exist.
C26_BulkInsertAllAtOnce ==
    [][\A p \in Procs : \A r \in {req[p]} :
         (r.kind = "bulk" /\ StepOf(p) /\ bookings' # bookings)
         => /\ r.pc = "createBulk" /\ Answered(p)
            /\ bookings \subseteq bookings'
            /\ Cardinality(bookings' \ bookings) = Len(r.bookingsToCreate)
            /\ \A k \in DOMAIN r.bookingsToCreate :
                 \E c \in bookings' \ bookings :
                    /\ c.seatId = r.bookingsToCreate[k].seatId
                    /\ c.date = r.bookingsToCreate[k].date
                    /\ c.slot = r.bookingsToCreate[k].slot]_vars

\* C26 witness: a bulk request has inserted two bookings while another
\* request is under way.
C26_Witness ==
    /\ response.kind = "bulk" /\ response.status = 201 /\ response.created = 2
    /\ response.rows \subseteq bookings
    /\ \E q \in Procs : req[q].pc \notin {"idle", "getUserRole"}

\* C27: no step changes the seatId, userId, userName, userEmail, date or
\* slot of a booking; a new booking has them from the request and the
\* caller's identity; the cancel step changes cancelledAt of the booking
\* with the given id and nothing else in bookings or seats.
C27_BookingFieldsFrozen ==
    [][/\ \A b \in bookings, c \in bookings' :
            c.id = b.id => [c EXCEPT !.cancelledAt = b.cancelledAt] = b
       /\ \A c \in bookings' :
            (\A b \in bookings : b.id # c.id) =>
               \E p \in Procs :
                  /\ req[p].kind \in {"single", "bulk"} /\ Answered(p)
                  /\ c.userId = req[p].user
                  /\ c.userName = UserNameOf(req[p].user)
                  /\ c.userEmail = UserEmailOf(req[p].user)
                  /\ req[p].kind = "single" =>
                       c.seatId = req[p].seatId /\ c.date = req[p].date
                       /\ c.slot = req[p].slot
                  /\ req[p].kind = "bulk" =>
                       /\ c.seatId \in Range(req[p].seatIds)
                       /\ c.date \in Range(req[p].dates)
                       /\ c.slot \in Range(req[p].slots)
       /\ \A p \in Procs : \A r \in {req[p]} :
            (r.kind = "cancel" /\ r.pc = "cancelBooking" /\ StepOf(p))
            => /\ seats' = seats
               /\ \A b \in bookings : b.id # r.bookingId => b \in bookings'
               /\ \A c \in bookings' : \E b \in bookings : b.id = c.id]_vars

\* C27 witness: of two bookings of one user, one was cancelled and the
\* other is active still.
C27_Witness ==
    /\ response.kind = "cancel" /\ response.status = 200
    /\ \E b, c \in bookings :
         b.id # c.id /\ b.userId = c.userId /\ ~Active(b) /\ Active(c)
         /\ b \in response.rows

\* C29: the insert of a bulk request that runs alone, on bookings with at
\* most one active booking a seat, date and slot, leaves at most one active
\* booking a seat, date and slot, also when its lists repeat a value.
C29_BulkAloneNoDuplicates ==
    [][\A p \in Procs :
         (req[p].kind = "bulk" /\ req[p].pc = "createBulk" /\ StepOf(p))
         => \A b, c \in bookings' :
              (Active(b) /\ Active(c) /\ b.id # c.id)
              => ~SameSlot(b, c.seatId, c.date, c.slot)]_vars

\* C30: no step of a single or bulk booking request inserts a booking for a
\* seat that is blocked or long-term reserved when the step is taken.
C30_NoInsertForWithheldSeat ==
    [][\A p \in Procs :
         (req[p].kind \in {"single", "bulk"} /\ StepOf(p))
         => \A c \in bookings' \ bookings : ~SeatWithheld(c.seatId)]_vars

\* C21: every user has at most one role row and every row's role is
\* employee or admin; the role request of a user with no row goes on to
\* setUserRole with the role employee, after which the user has exactly one
\* row, which the answer carries; with a row, it answers that row and writes
\* nothing.
C21_OneRolePerUser ==
    [][/\ \A u \in Users : Cardinality(GetUserRole(u)') <= 1
       /\ \A x \in userRoles' : x.role \in {"employee", "admin"}
       /\ \A p \in Procs : \A r \in {req[p]} :
            (r.kind = "roleGet" /\ StepOf(p) /\ r.pc # "idle")
            => /\ (r.pc = "getUserRole" /\ GetUserRole(r.user) = {}) =>
                    /\ req'[p].pc = "setUserRole" /\ req'[p].role = "employee"
                    /\ userRoles' = userRoles
               /\ (r.pc = "getUserRole" /\ GetUserRole(r.user) # {}) =>
                    /\ Answered(p) /\ response'.status = 200
                    /\ response'.rows = GetUserRole(r.user)
                    /\ userRoles' = userRoles
               /\ r.pc = "setUserRole" =>
                    /\ Answered(p) /\ response'.status = 200
                    /\ Cardinality(GetUserRole(r.user)') = 1
                    /\ response'.rows = GetUserRole(r.user)'
                    /\ GetUserRole(r.user) = {} =>
                         /\ GetUserRole(r.user)' = {[userId |-> r.user, role |-> "employee"]}
                         /\ userRoles \subseteq userRoles']_vars

\* C21 witness: bob, who had no role row, has asked for their role and was
\* answered with their new row, an employee's.
C21_Witness ==
    /\ response.kind = "roleGet" /\ response.status = 200
    /\ response.rows = {[userId |-> "bob", role |-> "employee"]}
    /\ GetUserRole("bob") = response.rows
    /\ started = 1

\* The cluster's seats that are not deleted, as indices of localSeats.
SeatsOf(c) == seatsByCluster(c.id)

\* C22: in the floor editor every cluster holds at most gridCols x gridRows
\* seats and no two seats of a cluster have the same (positionX, positionY),
\* whatever clusters and seats were created and deleted and grids resized.
C22_ClusterCapacityAndPositions ==
    \A c \in clusters :
        /\ Cardinality(SeatsOf(c)) <= c.gridCols * c.gridRows
        /\ \A i, j \in SeatsOf(c) :
             (localSeats[i].positionX = localSeats[j].positionX
              /\ localSeats[i].positionY = localSeats[j].positionY) => i = j

\* C22 witness: a resized cluster is full, a further seat was refused, and
\* a seat has been deleted.
C22_Witness ==
    /\ showCapacityWarning
    /\ \E c \in clusters :
         /\ c.isModified
         /\ Cardinality(SeatsOf(c)) = c.gridCols * c.gridRows
         /\ \E i \in SeatsOf(c) : localSeats[i].isNew
    /\ \E i \in DOMAIN localSeats : localSeats[i].isDeleted

\* C28: every cluster the editor holds has gridCols <= 2 or gridRows <= 2;
\* a create or a resize with both dimensions above 2 is refused with the
\* toast "Invalid grid size" and leaves the clusters as they were.
C28_OneDimensionAtMostTwo ==
    [][/\ \A i \in DOMAIN localClusters' :
            localClusters'[i].gridCols <= 2 \/ localClusters'[i].gridRows <= 2
       /\ toastTitle' = "Invalid grid size" => localClusters' = localClusters]_vars

\* C28 witness: a three-by-two cluster exists and the attempt to give it a
\* third row has just been refused.
C28_Witness ==
    /\ toastTitle = "Invalid grid size"
    /\ \E c \in clusters : c.id = selectedCluster /\ c.gridCols = 3 /\ c.gridRows = 2

\* C31: every booking row's seatId is the id of an existing seat; the insert
\* of a single or bulk booking request whose seat was deleted while the
\* request was in flight is refused by the store: it adds no row and the
\* request is answered 500.
C31_NoOrphanBooking ==
    [][/\ \A b \in bookings' : SeatExists(b.seatId)'
       /\ \A p \in Procs : \A r \in {req[p]} :
            (StepOf(p) /\ r.pc \in {"create", "createBulk"})
            => LET ids == IF r.kind = "single" THEN {r.seatId}
                          ELSE {r.bookingsToCreate[k].seatId :
                                  k \in 1..Len(r.bookingsToCreate)}
               IN  (\E s \in ids : ~SeatExists(s))
                   => /\ bookings' = bookings
                      /\ Answered(p) /\ response'.status = 500]_vars

\* C31 witness: a booking request was answered 500 after the seat it had
\* found was deleted; no booking row is left.
C31_Witness ==
    /\ response.kind \in {"single", "bulk"} /\ response.status = 500
    /\ \E s \in SeatIds : ~SeatExists(s)
    /\ \A b \in bookings : SeatExists(b.seatId)

\* C32: the default role of a first access never overwrites a role that
\* exists: the setUserRole step of a role request leaves the row its user
\* already has as it is; a role of admin is not replaced by employee.
C32_DefaultKeepsExistingRole ==
    [][\A p \in Procs : \A r \in {req[p]} :
         (r.kind = "roleGet" /\ r.pc = "setUserRole" /\ StepOf(p))
         => \A x \in GetUserRole(r.user) : x \in userRoles']_vars

\* C33: while some user has the admin role, no step of a role-update or
\* user-delete request leaves the table without an admin.
C33_AnAdminRemains ==
    [][(\E x \in userRoles : x.role = "admin")
       => \E x \in userRoles' : x.role = "admin"]_vars

\* C34: a cancel request that has passed the existence and authorization
\* checks is answered 200 with the booking, its cancelledAt set, also when
\* the booking's seat was deleted after the request fetched the booking.
C34_CancelAnswersCancelledBooking ==
    [][\A p \in Procs : \A r \in {req[p]} :
         (r.kind = "cancel" /\ r.pc = "cancelBooking" /\ StepOf(p))
         => /\ Answered(p) /\ response'.status = 200
            /\ \E b \in response'.rows : b.id = r.bookingId /\ b.cancelledAt # Null]_vars

\* C35: the update of a block or long-term request changes the row of its
\* seat and nothing else: no other seat, no booking; every booking of the
\* seat that was active before the update is active after it.
C35_SeatUpdateKeepsBookings ==
    [][\A p \in Procs : \A r \in {req[p]} :
         (r.kind \in {"block", "longTerm"} /\ r.pc = "updateSeat" /\ StepOf(p))
         => /\ bookings' = bookings
            /\ \A d \in Dates, l \in Slots :
                 ActiveRows(r.seatId, d, l) \subseteq ActiveRows(r.seatId, d, l)'
            /\ DOMAIN seats' = DOMAIN seats
            /\ \A s \in DOMAIN seats : s # r.seatId => seats'[s] = seats[s]
            /\ userRoles' = userRoles]_vars

\* C35 witness: a block or long-term update was answered 200, the seat is
\* withheld, and its booking is still active.
C35_Witness ==
    /\ response.kind \in {"block", "longTerm"} /\ response.status = 200
    /\ \E s \in DOMAIN seats :
         /\ seats[s].isBlocked \/ seats[s].isLongTermReserved
         /\ \E b \in bookings : b.seatId = s /\ Active(b)

\* C36: a seat that is not long-term reserved has no holder:
\* isLongTermReserved = false implies longTermReservedBy = null.
C36_NoHolderWithoutReservation ==
    \A s \in DOMAIN seats :
        ~seats[s].isLongTermReserved => seats[s].longTermReservedBy = ""

\* C37: every live seat of a live cluster lies inside the cluster's grid:
\* 0 <= positionX < gridCols and 0 <= positionY < gridRows.
C37_SeatsInsideGrid ==
    \A c \in clusters : \A i \in SeatsOf(c) :
        /\ 0 <= localSeats[i].positionX /\ localSeats[i].positionX < c.gridCols
        /\ 0 <= localSeats[i].positionY /\ localSeats[i].positionY < c.gridRows

\* The requests other than p that registered with the code and have
\* inserted their user.
C38_OthersCreated(p, code) ==
    {q \in Procs \ {p} : req[q].kind = "register" /\ req[q].inviteCode = code
                         /\ req[q].newUser # ""}

\* C38: an invite code admits at most one registration: a step that inserts
\* a user does so for a code whose invite is active and unused, and while no
\* other request in flight has inserted a user for the same code.
C38_InviteAdmitsOneRegistration ==
    [][\A p \in Procs : \A r \in {req[p]} :
         (r.kind = "register" /\ StepOf(p) /\ users' # users)
         => /\ \E i \in invites : i.code = r.inviteCode /\ i.isActive /\ i.usedBy = ""
            /\ C38_OthersCreated(p, r.inviteCode) = {}]_vars

====
